---- MODULE Spec2Model ----
(***************************************************************************)
(* Model of the atmd daemon: the session registry actor                    *)
(* (crates/atmd/src/registry/actor.rs), the session model it stores        *)
(* (crates/atm-core/src/session.rs), the status-line parser                *)
(* (crates/atm-protocol/src/parse.rs) and the connection server            *)
(* (crates/atmd/src/server/mod.rs, connection.rs).                         *)
(***************************************************************************)
EXTENDS Integers, Sequences, FiniteSets, TLC

(***************************************************************************)
(* Program constants                                                       *)
(***************************************************************************)
MAX_SESSIONS == 100

MAX_TUI_CLIENTS == 10

\* SessionInfrastructure::MAX_TOOL_HISTORY
MAX_TOOL_HISTORY == 50

\* connection.rs: the longest line read_message accepts, in bytes (1 MB)
MAX_MESSAGE_SIZE == 1048576

\* base of generate_synthetic_pid. The source value 0x8000_0000 is beyond the
\* integers of the model checker; the model uses a base that, like the source
\* one, lies above every real pid that occurs.
SYNTHETIC_PID_BASE == 2000000000

(***************************************************************************)
(* Bounds of the model                                                     *)
(***************************************************************************)
\* real process ids the commands of the model carry: 1..MaxPid (0 is the invalid pid)
MaxPid == 2

\* assistant-assigned session ids the commands carry: Uuid(1)..Uuid(MaxUuid)
MaxUuid == 1

\* start times a pid can be given by the operating system (pid reuse)
MaxEpoch == 2

\* entries under synthetic pids (created by Register) held at the same time
MaxSynthetic == 1

\* connections the server accepts: 1..MaxConn
MaxConn == 1

\* events the broadcast channel keeps for the broadcaster; it stands for
\* EVENT_BUFFER (100) of the registry's broadcast::channel
MaxChan == 2

\* messages recorded per connection since the last message read from it
MaxSent == 2

\* protocol versions the clients announce: major 1..MaxVersion, minor
\* 0..MaxVersion
MaxVersion == 2

\* largest total the cost and context_window objects of a status line report
MaxCost == 1

\* status lines counted (SessionInfrastructure.update_count) by the entries
\* held at the same time, in total
MaxUpdates == 1

\* tool uses recorded (SessionInfrastructure.hook_event_count) by the entries
\* held at the same time, in total
MaxToolUses == 1

(***************************************************************************)
(* Identifiers                                                             *)
(***************************************************************************)
NoPid == 0

ActivePids == 1..MaxPid

\* SessionId::pending_from_pid: "pending-<pid>"
pending_from_pid(pid) == <<"pending", pid>>

Uuid(k) == <<"uuid", k>>

\* session ids carried by the commands of the model: the pending id of pid 1
\* and the assistant-assigned ids
Sids == {pending_from_pid(1)} \cup {Uuid(k) : k \in 1..MaxUuid}

\* pids of the sessions the registry already holds in a prefilled initial state
BackgroundPid(k) == 1000 + k

BackgroundPids(n) == {BackgroundPid(k) : k \in 1..n}

IsBackgroundPid(pid) == pid > 1000 /\ pid <= 1000 + MAX_SESSIONS

Statuses == {"Idle", "Working", "AttentionNeeded"}

\* connections accepted before the ones the model follows, numbered from 0;
\* their clients were given synthesized ids and stay silent
EarlierConnections == MAX_TUI_CLIENTS

\* connection numbers (values of connection_counter) of the connections followed
Conns == EarlierConnections .. (EarlierConnections + MaxConn - 1)

\* an absent optional id: client_id: None, Subscribe without session_id
NoId == <<"none", 0>>

\* ConnectionHandler::new: no client id before the handshake; snapshot is the
\* local `sessions` of the Subscribe arm, the answer of get_all_sessions
NewConnection ==
    [pc |-> "idle", client_id |-> NoId, subscribed |-> FALSE, exit |-> "none",
     snapshot |-> {}]

\* handle_handshake: the id synthesized for connection number n, "client-<n>"
SynthesizedId(n) == <<"client", n>>

\* ids a client can supply in its Connect message: the one the server
\* synthesized for the first connection
ClientNames == {SynthesizedId(0)}

\* Subscribe without session_id
NoFilter == NoId

ProtocolVersion(major, minor) == [major |-> major, minor |-> minor]

\* ProtocolVersion::CURRENT
CURRENT == ProtocolVersion(1, 0)

Versions == {ProtocolVersion(major, minor) : major \in 1..MaxVersion, minor \in 0..MaxVersion}

\* a version taken to be compatible only with itself
is_compatible_with_same_minor(version, other) == version = other

\* ProtocolVersion::is_compatible_with: the major versions are equal
is_compatible_with(version, other) == version.major = other.major

HookEventTypes ==
    {"PreToolUse", "PostToolUse", "PostToolUseFailure", "UserPromptSubmit",
     "Stop", "SubagentStart", "SubagentStop", "SessionStart", "SessionEnd",
     "PreCompact", "Setup", "Notification"}

VARIABLES
    sessions_by_pid,    \* RegistryActor.sessions_by_pid: pid -> [domain, infra]
    session_id_to_pid,  \* RegistryActor.session_id_to_pid: session id -> pid
    events,             \* events published by the last registry command, in order
    result,             \* reply of the last registry command
    actor,              \* RegistryActor::run: whether the loop still receives
    respond_to,         \* whether the caller of the command handled next still
                        \* holds the receiver of its reply
    caller,             \* what the last handle operation gave back to its caller
    proc,               \* the operating system's process table for ActivePids
    broadcaster,        \* whether the event broadcaster task holds a receiver
    event_rx,           \* events in the broadcast channel, not yet received by it
    connection_counter, \* DaemonServer.connection_counter
    conn,               \* per connection: position of its handler, its client_id
    subscribers,        \* DaemonServer.subscribers: client id -> [writer, filter]
    sent,               \* per connection: messages written to its socket since
                        \* the handler last read a message from it
    cancel_token,       \* the shared CancellationToken: whether it is cancelled
    listener,           \* DaemonServer::run: position of the accept loop
    socket_file,        \* whether the socket file exists at socket_path
    peer                \* per connection: what its client does with the socket

registry_vars == <<sessions_by_pid, session_id_to_pid, events, result,
                   actor, respond_to, caller>>

\* the cancellation token, the accept loop and the clients' ends of the sockets
task_vars == <<cancel_token, listener, socket_file, peer>>

server_vars == <<broadcaster, connection_counter, conn, subscribers, sent, task_vars>>

vars == <<sessions_by_pid, session_id_to_pid, events, result,
          actor, respond_to, caller, proc,
          broadcaster, event_rx, connection_counter, conn, subscribers, sent,
          cancel_token, listener, socket_file, peer>>

(***************************************************************************)
(* The process table (/proc), read by set_pid and is_process_alive         *)
(***************************************************************************)
\* read_process_start_time: 0 stands for None
read_process_start_time(pid) ==
    IF pid \in ActivePids
    THEN (IF proc[pid].alive THEN proc[pid].start ELSE 0)
    ELSE IF IsBackgroundPid(pid) THEN 1 ELSE 0

(***************************************************************************)
(* Session model                                                           *)
(***************************************************************************)
\* SessionDomain::new. cost stands for the fields a status line takes from its
\* cost object (cost, duration, lines_changed), context for the token counters
\* it takes from its context_window object.
SessionDomain_new(id, model) ==
    [id |-> id, status |-> "Idle", model |-> model, current_activity |-> "none",
     cost |-> 0, context |-> 0]

\* str::trim on the tool names of the model: one of them is written with
\* whitespace around it
trim(tool_name) == IF tool_name = " AskUserQuestion " THEN "AskUserQuestion" ELSE tool_name

\* a comparison of the tool name as it was sent
is_interactive_tool_untrimmed(tool) ==
    tool \in {"AskUserQuestion", "EnterPlanMode", "ExitPlanMode"}

\* hook.rs is_interactive_tool
is_interactive_tool(tool) ==
    trim(tool) # "" /\ trim(tool) \in {"AskUserQuestion", "EnterPlanMode", "ExitPlanMode"}

\* an optional object that a status line does not carry
AbsentField == 0 - 1

\* the StatusLineData built by to_status_line_data and update_session:
\* cost.map(..).unwrap_or(0), context.map(..).unwrap_or(0)
StatusLineData(raw) ==
    [cost |-> IF raw.cost = AbsentField THEN 0 ELSE raw.cost,
     context |-> IF raw.context_window = AbsentField THEN 0 ELSE raw.context_window]

\* SessionDomain::from_status_line
from_status_line(session_id, model, data) ==
    [SessionDomain_new(session_id, model) EXCEPT !.cost = data.cost,
                                                 !.context = data.context]

\* a status-line update that sets the status to Working whatever it was
update_from_status_line_always_working(session, data) ==
    [session EXCEPT !.cost = data.cost, !.context = data.context, !.status = "Working"]

\* SessionDomain::update_from_status_line
update_from_status_line(session, data) ==
    [session EXCEPT !.cost = data.cost,
                    !.context = data.context,
                    !.status = IF session.status # "AttentionNeeded"
                               THEN "Working" ELSE session.status]

\* RawStatusLine::update_session: model only when present, then the update
update_session(raw, session) ==
    update_from_status_line(
        IF raw.model # "none" THEN [session EXCEPT !.model = raw.model] ELSE session,
        StatusLineData(raw))

\* RawStatusLine::to_session_domain, for a payload that carries a model (the
\* caller tests raw.model = "none" for the None result)
to_session_domain(raw) == from_status_line(raw.session_id, raw.model, StatusLineData(raw))

\* SessionDomain::apply_hook_event; tool = "none" stands for no tool name
apply_hook_event(session, event_type, tool) ==
    CASE event_type = "PreToolUse" ->
            IF tool = "none" THEN session
            ELSE IF is_interactive_tool(tool)
                 THEN [session EXCEPT !.status = "AttentionNeeded", !.current_activity = tool]
                 ELSE [session EXCEPT !.status = "Working", !.current_activity = tool]
      [] event_type \in {"PostToolUse", "PostToolUseFailure"} ->
            [session EXCEPT !.status = "Working", !.current_activity = "Thinking"]
      [] event_type = "UserPromptSubmit" ->
            [session EXCEPT !.status = "Working", !.current_activity = "none"]
      [] event_type \in {"Stop", "SessionStart", "SessionEnd"} ->
            [session EXCEPT !.status = "Idle", !.current_activity = "none"]
      [] event_type = "PreCompact" ->
            [session EXCEPT !.status = "Working", !.current_activity = "Compacting"]
      [] event_type = "Setup" ->
            [session EXCEPT !.status = "Working", !.current_activity = "Setup"]
      [] event_type = "Notification" -> session
      [] event_type \in {"SubagentStart", "SubagentStop"} ->
            [session EXCEPT !.status = "Working"]

\* SessionDomain::apply_notification
apply_notification(session, notification_type) ==
    CASE notification_type = "permission_prompt" ->
            [session EXCEPT !.status = "AttentionNeeded", !.current_activity = "Permission"]
      [] notification_type = "idle_prompt" ->
            [session EXCEPT !.status = "Idle", !.current_activity = "none"]
      [] notification_type = "elicitation_dialog" ->
            [session EXCEPT !.status = "AttentionNeeded", !.current_activity = "MCP Input"]
      [] OTHER -> session

\* SessionInfrastructure::new
SessionInfrastructure_new ==
    [pid |-> NoPid, process_start_time |-> 0, recent_tools |-> <<>>,
     update_count |-> 0, hook_event_count |-> 0]

\* SessionInfrastructure::set_pid: the pid is stored only when its start time can be read
set_pid(infra, pid) ==
    IF pid = 0 THEN infra
    ELSE IF infra.pid = pid THEN infra
    ELSE IF read_process_start_time(pid) # 0
         THEN [infra EXCEPT !.pid = pid,
                            !.process_start_time = read_process_start_time(pid)]
         ELSE infra

\* SessionInfrastructure::record_tool_use: the history keeps the last
\* MAX_TOOL_HISTORY records
record_tool_use(infra, tool_name) ==
    LET pushed == Append(infra.recent_tools, tool_name) IN
    [infra EXCEPT !.recent_tools = IF Len(pushed) > MAX_TOOL_HISTORY
                                   THEN Tail(pushed) ELSE pushed,
                  !.hook_event_count = @ + 1]

\* SessionInfrastructure::record_update
record_update(infra) == [infra EXCEPT !.update_count = @ + 1]

\* liveness judged by the presence of the pid alone
is_process_alive_by_pid_only(infra) ==
    IF infra.pid = NoPid THEN TRUE
    ELSE read_process_start_time(infra.pid) # 0

\* SessionInfrastructure::is_process_alive
is_process_alive(infra) ==
    IF infra.pid = NoPid THEN TRUE
    ELSE IF infra.process_start_time = 0 THEN read_process_start_time(infra.pid) # 0
    ELSE read_process_start_time(infra.pid) = infra.process_start_time

\* SessionView::from_domain
SessionView_from_domain(session) ==
    [id |-> session.id, status |-> session.status, model |-> session.model,
     activity_detail |-> session.current_activity, cost_usd |-> session.cost,
     context_percentage |-> session.context]

(***************************************************************************)
(* Session events                                                          *)
(***************************************************************************)
Registered(sid) == [type |-> "Registered", session_id |-> sid]

Updated(view) == [type |-> "Updated", session_id |-> view.id, session |-> view]

Removed(sid, reason) == [type |-> "Removed", session_id |-> sid, reason |-> reason]

(***************************************************************************)
(* Maps                                                                    *)
(***************************************************************************)
MapInsert(m, k, v) == [x \in (DOMAIN m) \cup {k} |-> IF x = k THEN v ELSE m[x]]

MapRemove(m, k) == [x \in (DOMAIN m) \ {k} |-> m[x]]

EmptyMap == [x \in {} |-> 0]

\* value of a registry command: new maps, events published, reply
Out(S, I, ev, res) == [s |-> S, i |-> I, ev |-> ev, res |-> res]

AbsentPid == 0 - 1

Card(S) == Cardinality(DOMAIN S)

NewEntry(session, pid) ==
    [domain |-> session, infra |-> set_pid(SessionInfrastructure_new, pid)]

(***************************************************************************)
(* Registry command handlers (RegistryActor), as functions of the two maps *)
(***************************************************************************)
\* RegistryActor::generate_synthetic_pid: first unused pid from 0x8000_0000 upwards
generate_synthetic_pid(S) ==
    LET cands == {SYNTHETIC_PID_BASE + k : k \in 0..Card(S)}
        free == {c \in cands : c \notin DOMAIN S}
    IN CHOOSE c \in free : \A d \in free : c <= d

\* a registration refused only above MAX_SESSIONS entries
handle_register_above_capacity(S, I, session, pid) ==
    IF Card(S) > MAX_SESSIONS THEN Out(S, I, <<>>, "RegistryFull")
    ELSE IF pid = 0 /\ session.id \in DOMAIN I THEN Out(S, I, <<>>, "SessionAlreadyExists")
    ELSE LET p == IF pid # 0 THEN pid ELSE generate_synthetic_pid(S) IN
         IF p \in DOMAIN S THEN Out(S, I, <<>>, "SessionAlreadyExists")
         ELSE Out(MapInsert(S, p, NewEntry(session, p)),
                  MapInsert(I, session.id, p),
                  <<Registered(session.id)>>, "Ok")

\* RegistryActor::handle_register; pid = 0 stands for None
handle_register(S, I, session, pid) ==
    IF Card(S) >= MAX_SESSIONS THEN Out(S, I, <<>>, "RegistryFull")
    ELSE IF pid = 0 /\ session.id \in DOMAIN I THEN Out(S, I, <<>>, "SessionAlreadyExists")
    ELSE LET p == IF pid # 0 THEN pid ELSE generate_synthetic_pid(S) IN
         IF p \in DOMAIN S THEN Out(S, I, <<>>, "SessionAlreadyExists")
         ELSE Out(MapInsert(S, p, NewEntry(session, p)),
                  MapInsert(I, session.id, p),
                  <<Registered(session.id)>>, "Ok")

\* a discovered session given a fresh Infrastructure record although its pid
\* has an entry
discovered_infra_fresh(S, pid) == set_pid(SessionInfrastructure_new, pid)

\* handle_register_discovered: the Infrastructure record of the entry removed
\* for the pid is kept (old_infra); without an entry a new record is made
discovered_infra(S, pid) ==
    IF pid \in DOMAIN S THEN S[pid].infra ELSE set_pid(SessionInfrastructure_new, pid)

\* RegistryActor::handle_register_discovered
handle_register_discovered(S, I, session_id, pid) ==
    IF pid = 0 THEN Out(S, I, <<>>, "Ok")
    ELSE IF pid \in DOMAIN S /\ S[pid].domain.id = session_id THEN Out(S, I, <<>>, "Ok")
    ELSE IF pid \notin DOMAIN S /\ Card(S) >= MAX_SESSIONS
         THEN Out(S, I, <<>>, "RegistryFull")
    ELSE LET session == SessionDomain_new(session_id, "Unknown")
             existed == pid \in DOMAIN S
             infra == discovered_infra(S, pid)
             I1 == IF existed THEN MapRemove(I, S[pid].domain.id) ELSE I
             ev1 == IF existed THEN <<Removed(S[pid].domain.id, "Upgraded")>> ELSE <<>>
         IN Out(MapInsert(S, pid, [domain |-> session, infra |-> infra]),
                MapInsert(I1, session_id, pid),
                ev1 \o <<Registered(session_id), Updated(SessionView_from_domain(session))>>,
                "Ok")

\* the index re-keyed by an upgrade without removing the old session id
rekey_index_keeps_old(I, old_session_id, session_id, pid) ==
    MapInsert(I, session_id, pid)

\* update_or_create_by_pid, upgrade branch: the index entry of the old session
\* id is removed and the new session id is indexed to the pid
rekey_index(I, old_session_id, session_id, pid) ==
    MapInsert(MapRemove(I, old_session_id), session_id, pid)

\* the events of an upgrade with the registration announced first
upgrade_events_registered_first(old_session_id, session_id) ==
    <<Registered(session_id), Removed(old_session_id, "Upgraded")>>

\* update_or_create_by_pid, upgrade branch: the events published before Updated
upgrade_events(old_session_id, session_id) ==
    <<Removed(old_session_id, "Upgraded"), Registered(session_id)>>

\* a status line taken to describe a session whatever fields it carries
has_session_domain_always(raw) == TRUE

\* RawStatusLine::to_session_domain returns Some: to_status_line_data needs
\* the model (self.model.as_ref()?)
has_session_domain(raw) == raw.model # "none"

\* RegistryActor::update_or_create_by_pid
update_or_create_by_pid(S, I, pid, session_id, raw) ==
    IF pid \in DOMAIN S
    THEN LET old_session_id == S[pid].domain.id
             updated == update_session(raw, S[pid].domain)
             upgraded == old_session_id # session_id
             session == IF upgraded THEN [updated EXCEPT !.id = session_id] ELSE updated
             I1 == IF upgraded
                   THEN rekey_index(I, old_session_id, session_id, pid)
                   ELSE I
             ev1 == IF upgraded
                    THEN upgrade_events(old_session_id, session_id)
                    ELSE <<>>
         IN Out([S EXCEPT ![pid].domain = session, ![pid].infra = record_update(@)], I1,
                ev1 \o <<Updated(SessionView_from_domain(session))>>, "Ok")
    ELSE IF ~has_session_domain(raw) THEN Out(S, I, <<>>, "Ok")
    ELSE IF Card(S) >= MAX_SESSIONS THEN Out(S, I, <<>>, "RegistryFull")
    ELSE Out(MapInsert(S, pid, NewEntry(to_session_domain(raw), pid)),
             MapInsert(I, session_id, pid),
             <<Registered(session_id),
               Updated(SessionView_from_domain(to_session_domain(raw)))>>,
             "Ok")

\* RegistryActor::handle_update_from_status_line; raw.valid is the outcome of
\* deserialising the payload into RawStatusLine
handle_update_from_status_line(S, I, session_id, raw) ==
    IF ~raw.valid THEN Out(S, I, <<>>, "ParseError")
    ELSE IF raw.pid # AbsentPid /\ raw.pid # 0
         THEN update_or_create_by_pid(S, I, raw.pid, session_id, raw)
    ELSE IF session_id \in DOMAIN I
         THEN (IF I[session_id] \in DOMAIN S
               THEN LET pid == I[session_id]
                        session == update_session(raw, S[pid].domain)
                    IN Out([S EXCEPT ![pid].domain = session,
                                     ![pid].infra = record_update(@)], I,
                           <<Updated(SessionView_from_domain(session))>>, "Ok")
               ELSE Out(S, I, <<>>, "Ok"))
    ELSE Out(S, I, <<>>, "Ok")

\* RegistryActor::handle_remove_by_pid
handle_remove_by_pid(S, I, pid, reason) ==
    IF pid \notin DOMAIN S THEN Out(S, I, <<>>, "SessionNotFound")
    ELSE Out(MapRemove(S, pid), MapRemove(I, S[pid].domain.id),
             <<Removed(S[pid].domain.id, reason)>>, "Ok")

\* a removal that announces the removal of an id it does not find
handle_remove_announcing_absent(S, I, session_id, reason) ==
    IF session_id \notin DOMAIN I
    THEN Out(S, I, <<Removed(session_id, reason)>>, "SessionNotFound")
    ELSE Out(MapRemove(S, I[session_id]), MapRemove(I, session_id),
             <<Removed(session_id, reason)>>, "Ok")

\* RegistryActor::handle_remove
handle_remove(S, I, session_id, reason) ==
    IF session_id \notin DOMAIN I THEN Out(S, I, <<>>, "SessionNotFound")
    ELSE Out(MapRemove(S, I[session_id]), MapRemove(I, session_id),
             <<Removed(session_id, reason)>>, "Ok")

\* the status change a hook event makes (handle_apply_hook_event, both branches)
ApplyHook(session, event_type, tool, notification_type) ==
    IF event_type = "Notification"
    THEN apply_notification(session, notification_type)
    ELSE apply_hook_event(session, event_type, tool)

\* handle_apply_hook_event: the tool use is recorded when the hook names a tool
record_hook_tool(infra, tool) ==
    IF tool # "none" THEN record_tool_use(infra, tool) ELSE infra

\* pid.or_else(|| session_id_to_pid.get(&session_id)) in handle_apply_hook_event
hook_target_pid(I, session_id, pid) ==
    IF pid # AbsentPid THEN pid
    ELSE IF session_id \in DOMAIN I THEN I[session_id] ELSE AbsentPid

\* an entry created for whatever pid the hook carries, 0 included
hook_creates_for_any_pid(pid) == pid # AbsentPid

\* handle_apply_hook_event, no entry found: `if let Some(p) = pid { if p != 0`
hook_creates(pid) == pid # AbsentPid /\ pid # 0

\* RegistryActor::handle_apply_hook_event
handle_apply_hook_event(S, I, session_id, event_type, tool, notification_type, pid) ==
    LET target_pid == hook_target_pid(I, session_id, pid) IN
    IF event_type = "SessionEnd"
    THEN (IF target_pid # AbsentPid /\ target_pid \in DOMAIN S
          THEN handle_remove_by_pid(S, I, target_pid, "SessionEnded")
          ELSE Out(S, I, <<>>, "Ok"))
    ELSE IF target_pid # AbsentPid /\ target_pid \in DOMAIN S
         THEN LET session == ApplyHook(S[target_pid].domain, event_type, tool,
                                       notification_type)
              IN Out([S EXCEPT ![target_pid].domain = session,
                               ![target_pid].infra = record_hook_tool(@, tool)], I,
                     <<Updated(SessionView_from_domain(session))>>, "Ok")
    ELSE IF hook_creates(pid)
         THEN LET session == ApplyHook(SessionDomain_new(session_id, "Unknown"),
                                       event_type, tool, notification_type)
                  entry == NewEntry(session, pid)
              IN Out(MapInsert(S, pid, [entry EXCEPT !.infra = record_hook_tool(@, tool)]),
                     MapInsert(I, session_id, pid),
                     <<Registered(session_id), Updated(SessionView_from_domain(session))>>,
                     "Ok")
    ELSE Out(S, I, <<>>, "Ok")

\* the entries handle_cleanup_stale collects: those whose process is not alive
to_remove(S) == {pid \in DOMAIN S : ~is_process_alive(S[pid].infra)}

RECURSIVE RemoveAll(_, _, _)
\* the removal loop of handle_cleanup_stale over the collected (pid, session id) pairs
RemoveAll(S, I, order) ==
    IF order = <<>> THEN Out(S, I, <<>>, "none")
    ELSE LET pid == Head(order)
             rest == RemoveAll(MapRemove(S, pid), MapRemove(I, S[pid].domain.id),
                               Tail(order))
         IN Out(rest.s, rest.i,
                <<Removed(S[pid].domain.id, "ProcessDied")>> \o rest.ev, "none")

\* the orders in which a HashMap iteration can yield a set of pids
Orders(P) == {o \in [1..Cardinality(P) -> P] : \A a, b \in 1..Cardinality(P) :
                                                  a # b => o[a] # o[b]}

\* RegistryActor::handle_cleanup_stale, for one iteration order of the map
handle_cleanup_stale(S, I, order) == RemoveAll(S, I, order)

\* RegistryActor::handle_get_session; <<>> stands for None
handle_get_session(S, I, session_id) ==
    IF session_id \in DOMAIN I /\ I[session_id] \in DOMAIN S
    THEN <<SessionView_from_domain(S[I[session_id]].domain)>>
    ELSE <<>>

\* RegistryActor::handle_get_all_sessions
handle_get_all_sessions(S) == {SessionView_from_domain(S[p].domain) : p \in DOMAIN S}

(***************************************************************************)
(* Inputs                                                                  *)
(***************************************************************************)
\* pid field of a status line or hook payload: absent, 0, or a real pid
PayloadPids == {AbsentPid, 0} \cup ActivePids

\* a payload that deserialises into RawStatusLine; model = "none", cost and
\* context_window = AbsentField stand for None
RawStatusLine(session_id, pid, model, cost, context_window) ==
    [valid |-> TRUE, session_id |-> session_id, pid |-> pid, model |-> model,
     cost |-> cost, context_window |-> context_window]

\* a payload that serde_json::from_value rejects as RawStatusLine
NoRawStatusLine(session_id) ==
    [valid |-> FALSE, session_id |-> session_id, pid |-> AbsentPid, model |-> "none",
     cost |-> AbsentField, context_window |-> AbsentField]

\* status-line payloads over given session ids and pids: deserialisable ones,
\* with or without model, and one that RawStatusLine rejects
RawStatusLinesOver(sids, pids) ==
    {RawStatusLine(s, p, m, AbsentField, AbsentField) :
        s \in sids, p \in pids, m \in {"none", "Sonnet4"}}
    \cup {NoRawStatusLine(s) : s \in sids}

RawStatusLines == RawStatusLinesOver(Sids, PayloadPids)

\* (event type, tool name, notification type) of the hook events sent
HookCases == {<<"Stop", "none", "none">>, <<"SessionEnd", "none", "none">>}

\* hook events that exercise the three statuses
StatusHookCases ==
    HookCases \cup {<<"PreToolUse", "Bash", "none">>,
                    <<"PreToolUse", "AskUserQuestion", "none">>,
                    <<"Notification", "none", "permission_prompt">>}

\* an entry created by discovery for a live background process
BackgroundEntry(pid) ==
    [domain |-> SessionDomain_new(pending_from_pid(pid), "Unknown"),
     infra |-> [SessionInfrastructure_new EXCEPT !.pid = pid, !.process_start_time = 1]]

SyntheticCount(S) == Cardinality({p \in DOMAIN S : p >= SYNTHETIC_PID_BASE})

(***************************************************************************)
(* Registry actor: one action per command (RegistryActor::handle_command)  *)
(***************************************************************************)
\* the last n elements of the sequence q
Newest(q, n) == IF Len(q) <= n THEN q ELSE SubSeq(q, Len(q) - n + 1, Len(q))

\* the channel handing out the events of the latest command first
send_latest_first(q, evs) == Newest(evs \o q, MaxChan)

\* broadcast::Sender::send: the channel keeps the newest events up to its
\* capacity; a receiver that lags loses the oldest ones (RecvError::Lagged)
send(q, evs) == Newest(q \o evs, MaxChan)

\* a channel that keeps what is sent without a receiver for a later one
publish_kept(evs) == send(event_rx, evs)

\* event_publisher.send: the events reach the broadcaster's receiver if it
\* has subscribed, and are dropped when there is no receiver
publish(evs) ==
    IF broadcaster \in {"running", "writing"} THEN send(event_rx, evs) ELSE event_rx

\* the number counted in total by the entries of S under the counter field,
\* as far as limit + 1
Total(S, field, limit) ==
    Cardinality({pk \in {pid \in DOMAIN S : S[pid].infra[field] > 0} \X (1..(limit + 1)) :
                    S[pk[1]].infra[field] >= pk[2]})

\* the status lines and the tool uses counted by the entries of S, in total,
\* within the bounds of the model
CountersWithin(S) ==
    /\ Total(S, "update_count", MaxUpdates) <= MaxUpdates
    /\ Total(S, "hook_event_count", MaxToolUses) <= MaxToolUses

\* what a handle operation gives back: a result or an answer to a query
Returned(kind, views) == [kind |-> kind, views |-> views]

\* rx.await of the handle operation: the reply, unless the caller has
\* dropped the receiver and is gone
Awaited(reply) == IF respond_to = "open" THEN reply ELSE Returned("abandoned", {})

\* an actor loop that ends when a reply cannot be delivered
run_until_send_error == IF respond_to = "open" THEN "running" ELSE "stopped"

\* RegistryActor::run after `let _ = respond_to.send(result)`: the error of
\* a send is ignored and the loop receives the next command
run == "running"

\* the registry state after a command, the events it published and its reply
Commit(out) ==
    /\ actor = "running"
    /\ CountersWithin(out.s)
    /\ sessions_by_pid' = out.s
    /\ session_id_to_pid' = out.i
    /\ events' = out.ev
    /\ result' = out.res
    /\ event_rx' = publish(out.ev)
    /\ caller' = Awaited(Returned(out.res, {}))
    /\ respond_to' = "open"
    /\ actor' = run

Register(sid) ==
    /\ SyntheticCount(sessions_by_pid) < MaxSynthetic
    /\ Commit(handle_register(sessions_by_pid, session_id_to_pid,
                              SessionDomain_new(sid, "Sonnet4"), 0))
    /\ UNCHANGED <<proc, server_vars>>

RegisterDiscovered(sid, pid) ==
    /\ Commit(handle_register_discovered(sessions_by_pid, session_id_to_pid, sid, pid))
    /\ UNCHANGED <<proc, server_vars>>

UpdateFromStatusLine(raw) ==
    /\ Commit(handle_update_from_status_line(sessions_by_pid, session_id_to_pid,
                                             raw.session_id, raw))
    /\ UNCHANGED <<proc, server_vars>>

ApplyHookEvent(sid, hc, pid) ==
    /\ Commit(handle_apply_hook_event(sessions_by_pid, session_id_to_pid,
                                      sid, hc[1], hc[2], hc[3], pid))
    /\ UNCHANGED <<proc, server_vars>>

Remove(sid) ==
    /\ Commit(handle_remove(sessions_by_pid, session_id_to_pid, sid, "Explicit"))
    /\ UNCHANGED <<proc, server_vars>>

CleanupStale(order) ==
    /\ Commit(handle_cleanup_stale(sessions_by_pid, session_id_to_pid, order))
    /\ UNCHANGED <<proc, server_vars>>

(***************************************************************************)
(* The operating system: processes start and exit; a pid that is reused    *)
(* gets a later start time                                                 *)
(***************************************************************************)
ProcessStart(pid) ==
    /\ ~proc[pid].alive
    /\ proc[pid].start < MaxEpoch
    /\ proc' = [proc EXCEPT ![pid] = [alive |-> TRUE, start |-> proc[pid].start + 1]]
    /\ UNCHANGED <<registry_vars, event_rx, server_vars>>

ProcessExit(pid) ==
    /\ proc[pid].alive
    /\ proc' = [proc EXCEPT ![pid].alive = FALSE]
    /\ UNCHANGED <<registry_vars, event_rx, server_vars>>

\* the registry holding n discovered background sessions
InitRegistry(n) ==
    /\ sessions_by_pid = [p \in BackgroundPids(n) |-> BackgroundEntry(p)]
    /\ session_id_to_pid =
          [s \in {pending_from_pid(p) : p \in BackgroundPids(n)} |-> s[2]]
    /\ events = <<>>
    /\ result = "none"
    /\ actor = "running"
    /\ respond_to = "open"
    /\ caller = Returned("none", {})

\* every process of ActivePids running since its first start
AllAlive == [p \in ActivePids |-> [alive |-> TRUE, start |-> 1]]

\* the clients of the connections cs reading what the server writes to them
AllReading(cs) == [c \in cs |-> "reading"]

\* before DaemonServer::run: nothing listens, the socket file does not exist
NoTasks ==
    /\ cancel_token = FALSE
    /\ listener = "none"
    /\ socket_file = FALSE
    /\ peer = AllReading(Conns)

\* DaemonServer::run after the bind: the accept loop runs, the token is not
\* cancelled
Listening(cs) ==
    /\ cancel_token = FALSE
    /\ listener = "accepting"
    /\ socket_file = TRUE
    /\ peer = AllReading(cs)

\* the daemon before DaemonServer::run: no broadcaster, no connection
NoServer ==
    /\ broadcaster = "none"
    /\ event_rx = <<>>
    /\ connection_counter = 0
    /\ conn = [c \in Conns |-> NewConnection]
    /\ subscribers = EmptyMap
    /\ sent = [c \in Conns |-> <<>>]
    /\ NoTasks

(***************************************************************************)
(* Spec: the registry actor serving every command, over live processes     *)
(***************************************************************************)
Init ==
    /\ InitRegistry(0)
    /\ proc = AllAlive
    /\ NoServer

Next ==
    \/ \E sid \in Sids : Register(sid)
    \/ \E sid \in Sids, pid \in {0} \cup ActivePids : RegisterDiscovered(sid, pid)
    \/ \E raw \in RawStatusLines : UpdateFromStatusLine(raw)
    \/ \E sid \in Sids, hc \in HookCases, pid \in PayloadPids : ApplyHookEvent(sid, hc, pid)
    \/ \E sid \in Sids : Remove(sid)
    \/ \E order \in Orders(to_remove(sessions_by_pid)) : CleanupStale(order)

Spec == Init /\ [][Next]_vars

(***************************************************************************)
(* Properties                                                              *)
(***************************************************************************)
\* every stored entry is indexed under its own session id
EntriesIndexed ==
    \A pid \in DOMAIN sessions_by_pid :
        /\ sessions_by_pid[pid].domain.id \in DOMAIN session_id_to_pid
        /\ session_id_to_pid[sessions_by_pid[pid].domain.id] = pid

\* every index entry points at a stored entry that carries that session id
IndexResolves ==
    \A sid \in DOMAIN session_id_to_pid :
        /\ session_id_to_pid[sid] \in DOMAIN sessions_by_pid
        /\ sessions_by_pid[session_id_to_pid[sid]].domain.id = sid

\* C1: after every registry command the primary map and the SessionId index
\* agree in both directions, so no session id is held by two entries.
C1_IndexAgrees == EntriesIndexed /\ IndexResolves

(***************************************************************************)
(* SpecCapacity: the same commands, on a registry one entry below capacity *)
(***************************************************************************)
InitCapacity ==
    /\ InitRegistry(MAX_SESSIONS - 1)
    /\ proc = AllAlive
    /\ NoServer

SpecCapacity == InitCapacity /\ [][Next]_vars

\* C2: the number of entries in the registry never exceeds MAX_SESSIONS,
\* whichever command created them.
C2_SizeBounded == Card(sessions_by_pid) <= MAX_SESSIONS

\* the status line raw upgrades the entry of its pid to a new session id
IsUpgrade(raw) ==
    /\ raw.valid
    /\ raw.pid \in DOMAIN sessions_by_pid
    /\ sessions_by_pid[raw.pid].domain.id # raw.session_id

\* C4: a status line for a pid that has an entry under a different session id
\* publishes exactly Removed{old id, Upgraded}, Registered{new id},
\* Updated{view with the new id}, in this order, and the number of entries
\* does not change.
C4_UpgradeEvents ==
    [][\A raw \in RawStatusLines :
          (IsUpgrade(raw) /\ UpdateFromStatusLine(raw)) =>
             /\ Len(events') = 3
             /\ events'[1] = Removed(sessions_by_pid[raw.pid].domain.id, "Upgraded")
             /\ events'[2] = Registered(raw.session_id)
             /\ events'[3].type = "Updated"
             /\ events'[3].session.id = raw.session_id
             /\ events'[3].session = SessionView_from_domain(sessions_by_pid'[raw.pid].domain)
             /\ Card(sessions_by_pid') = Card(sessions_by_pid)]_vars

\* a status line has upgraded an entry: the three events of an upgrade, the
\* view showing the status that only a status line leaves behind
C4_Witness ==
    /\ Len(events) = 3
    /\ events[1].type = "Removed" /\ events[1].reason = "Upgraded"
    /\ events[2].type = "Registered"
    /\ events[3].type = "Updated"
    /\ events[3].session.status = "Working"
    /\ events[3].session.id = events[2].session_id

SessionEndCase == <<"SessionEnd", "none", "none">>

\* the entry a hook resolves to by pid or, failing that, by session id
\* (AbsentPid when neither resolves)
ResolvedEntry(sid, pid) ==
    IF pid \in DOMAIN sessions_by_pid THEN pid
    ELSE IF sid \in DOMAIN session_id_to_pid
            /\ session_id_to_pid[sid] \in DOMAIN sessions_by_pid
         THEN session_id_to_pid[sid]
         ELSE AbsentPid

\* C5: a SessionEnd hook whose pid or, failing that, whose session id resolves
\* to an entry removes that entry and its index entry and publishes exactly
\* one Removed{session id, SessionEnded}.
C5_SessionEndRemoves ==
    [][\A sid \in Sids, pid \in PayloadPids :
          (ApplyHookEvent(sid, SessionEndCase, pid)
             /\ ResolvedEntry(sid, pid) # AbsentPid) =>
             LET target == ResolvedEntry(sid, pid)
                 old == sessions_by_pid[target].domain.id
             IN /\ target \notin DOMAIN sessions_by_pid'
                /\ old \notin DOMAIN session_id_to_pid'
                /\ events' = <<Removed(old, "SessionEnded")>>]_vars

(***************************************************************************)
(* SpecOnePid: discovery, status lines and hook events of one process      *)
(* (test_no_duplicate_sessions_for_same_pid), under any session ids        *)
(***************************************************************************)
OnePid == 1

\* the session ids of Sids and two more assistant-assigned ids
OnePidSids == Sids \cup {Uuid(MaxUuid + 1), Uuid(MaxUuid + 2)}

OnePidStatusLines == RawStatusLinesOver(OnePidSids, {OnePid})

NextOnePid ==
    \/ RegisterDiscovered(pending_from_pid(OnePid), OnePid)
    \/ \E raw \in OnePidStatusLines : UpdateFromStatusLine(raw)
    \/ \E sid \in OnePidSids, hc \in StatusHookCases : ApplyHookEvent(sid, hc, OnePid)

SpecOnePid == Init /\ [][NextOnePid]_vars

\* C3 as stated: once the process has an entry, every further discovery,
\* status line or hook event of that process leaves exactly one entry.
C3_ExactlyOneEntry ==
    [][Card(sessions_by_pid) = 1 => Card(sessions_by_pid') = 1]_vars

\* a status line that the registry applies: it parses, and the process has an
\* entry or the status line carries the model needed to create one
Applies(raw) ==
    /\ raw.valid
    /\ (raw.pid \in DOMAIN sessions_by_pid \/ raw.model # "none")

\* C3 (amended): the process has at most one entry and at most one index entry
\* at every step; discovery, a hook event other than SessionEnd and an applied
\* status line leave exactly one entry, and only a SessionEnd hook removes it;
\* after an applied status line with session id s the entry's session id is s,
\* GetSession(s) returns it and the previous session id no longer resolves.
C3_OneEntryPerProcess ==
    [][/\ Card(sessions_by_pid') <= 1
       /\ Card(session_id_to_pid') = Card(sessions_by_pid')
       /\ (RegisterDiscovered(pending_from_pid(OnePid), OnePid)
             => DOMAIN sessions_by_pid' = {OnePid})
       /\ \A sid \in OnePidSids, hc \in StatusHookCases \ {SessionEndCase} :
             ApplyHookEvent(sid, hc, OnePid) => DOMAIN sessions_by_pid' = {OnePid}
       /\ (Card(sessions_by_pid) = 1 /\ Card(sessions_by_pid') = 0
             => \E sid \in OnePidSids : ApplyHookEvent(sid, SessionEndCase, OnePid))
       /\ \A raw \in OnePidStatusLines :
             (UpdateFromStatusLine(raw) /\ Applies(raw)) =>
                /\ DOMAIN sessions_by_pid' = {OnePid}
                /\ sessions_by_pid'[OnePid].domain.id = raw.session_id
                /\ handle_get_session(sessions_by_pid', session_id_to_pid', raw.session_id)
                      = <<SessionView_from_domain(sessions_by_pid'[OnePid].domain)>>
                /\ \A old \in OnePidSids \ {raw.session_id} :
                      handle_get_session(sessions_by_pid', session_id_to_pid', old) = <<>>
      ]_vars

\* a status line has moved the discovered entry of the process to an
\* assistant-assigned session id, which resolves to the only entry
C3_Witness ==
    /\ DOMAIN sessions_by_pid = {OnePid}
    /\ sessions_by_pid[OnePid].domain.id = Uuid(1)
    /\ Len(events) = 3
    /\ events[1] = Removed(pending_from_pid(OnePid), "Upgraded")
    /\ events[3].type = "Updated" /\ events[3].session.status = "Working"
    /\ handle_get_session(sessions_by_pid, session_id_to_pid, Uuid(1)) # <<>>

(***************************************************************************)
(* SpecCleanup: sessions created in each of the four ways while processes  *)
(* exit and their pids are reused, and the periodic cleanup sweep          *)
(***************************************************************************)
\* the status line the process pid sends
StatusLineOf(pid) == RawStatusLine(Uuid(pid), pid, "Sonnet4", AbsentField, AbsentField)

StopCase == <<"Stop", "none", "none">>

NextCleanup ==
    \/ Register(Uuid(0))
    \/ \E pid \in ActivePids : RegisterDiscovered(pending_from_pid(pid), pid)
    \/ \E pid \in ActivePids : UpdateFromStatusLine(StatusLineOf(pid))
    \/ \E pid \in ActivePids : ApplyHookEvent(Uuid(pid), StopCase, pid)
    \/ \E order \in Orders(to_remove(sessions_by_pid)) : CleanupStale(order)
    \/ \E pid \in ActivePids : ProcessStart(pid)
    \/ \E pid \in ActivePids : ProcessExit(pid)

SpecCleanup == Init /\ [][NextCleanup]_vars

\* the process of the entry under the real pid is not alive: the pid is absent
\* from the process table, or its start time differs from the one the entry
\* captured
NotAlive(pid) ==
    /\ pid \in ActivePids
    /\ (~proc[pid].alive
          \/ proc[pid].start # sessions_by_pid[pid].infra.process_start_time)

TrackedProcessGone(pid) ==
    LET infra == sessions_by_pid[pid].infra IN
    /\ infra.pid # NoPid
    /\ infra.pid \in ActivePids
    /\ (~proc[infra.pid].alive \/ proc[infra.pid].start # infra.process_start_time)

Msg(type) == [type |-> type]

Error(message) == [type |-> "error", message |-> message]

session_updated(session) ==
    [type |-> "session_updated", session_id |-> session.id, session |-> session]

session_removed(sid) == [type |-> "session_removed", session_id |-> sid]

\* the record of what a connection has been sent, kept up to MaxSent messages
Written(log, msg) == IF Len(log) < MaxSent THEN Append(log, msg) ELSE log

\* ConnectionHandler::send_message of the replies to the message just read
Reply(c, msgs) == sent' = [sent EXCEPT ![c] = msgs]

\* a handler that takes requests while it still awaits the Connect message
Ready_before_handshake(c) == conn[c].pc \in {"handshake", "ready"}

\* process_messages at its read: run has completed handle_handshake
Ready(c) == conn[c].pc = "ready"

\* room in the broadcast channel for the events of one more registry command
ChannelHas(n) == Len(event_rx) + n <= MaxChan

\* DaemonServer::run accept loop: the next connection gets the counter's value
Accept ==
    /\ broadcaster = "running"
    /\ listener = "accepting"
    /\ connection_counter \in DOMAIN conn
    /\ conn[connection_counter].pc = "idle"
    /\ conn' = [conn EXCEPT ![connection_counter].pc = "handshake"]
    /\ connection_counter' = connection_counter + 1
    /\ UNCHANGED <<registry_vars, proc, task_vars, broadcaster, event_rx, subscribers, sent>>

\* a line a client writes: its length in bytes with the newline, whether it
\* is the JSON of a ClientMessage, and the message's protocol_version, type
\* and client_id
Line(len, kind, version, client_id) ==
    [len |-> len, kind |-> kind, version |-> version, client_id |-> client_id]

\* read_message with the size test one byte late
read_message_limit_late(line) ==
    IF line.len > MAX_MESSAGE_SIZE + 1 THEN "MessageTooLarge"
    ELSE IF line.kind = "unreadable" THEN "ParseError"
    ELSE "Ok"

\* ConnectionHandler::read_message of a line that arrived: the size test, then
\* serde_json::from_str
read_message(line) ==
    IF line.len > MAX_MESSAGE_SIZE THEN "MessageTooLarge"
    ELSE IF line.kind = "unreadable" THEN "ParseError"
    ELSE "Ok"

\* first messages a client can send: Connect with or without a client id,
\* another message type, each of any version, and a line read_message cannot
\* turn into a message
FirstMessages ==
    {Line(1, "connect", v, id) : v \in Versions, id \in {NoId} \cup ClientNames}
    \cup {Line(1, "ping", v, NoId) : v \in Versions}
    \cup {Line(1, "unreadable", CURRENT, NoId)}

\* ConnectionHandler::handle_handshake, and ConnectionHandler::run on its failure
Handshake(c, first) ==
    /\ conn[c].pc = "handshake"
    /\ IF read_message(first) # "Ok"
       THEN /\ conn' = [conn EXCEPT ![c].pc = "closed", ![c].exit = read_message(first)]
            /\ Reply(c, <<>>)
       ELSE IF ~is_compatible_with(first.version, CURRENT)
       THEN /\ conn' = [conn EXCEPT ![c].pc = "closed", ![c].exit = "VersionMismatch"]
            /\ Reply(c, <<Msg("rejected")>>)
       ELSE IF first.kind = "connect"
       THEN /\ conn' = [conn EXCEPT ![c].pc = "ready",
                                    ![c].client_id =
                                        IF first.client_id = NoId
                                        THEN SynthesizedId(c) ELSE first.client_id]
            /\ Reply(c, <<Msg("connected")>>)
       ELSE /\ conn' = [conn EXCEPT ![c].pc = "closed", ![c].exit = "UnexpectedMessage"]
            /\ Reply(c, <<Error("Expected Connect message for handshake")>>)
    /\ UNCHANGED <<registry_vars, proc, task_vars, broadcaster, event_rx, connection_counter, subscribers>>

\* handle_message, Connect after the handshake
RecvConnect(c) ==
    /\ Ready(c)
    /\ Reply(c, <<Error("Already connected")>>)
    /\ UNCHANGED <<registry_vars, proc, task_vars, broadcaster, event_rx, connection_counter, conn, subscribers>>

\* handle_message, ListSessions
RecvListSessions(c) ==
    /\ Ready(c)
    /\ Reply(c, <<Msg("session_list")>>)
    /\ UNCHANGED <<registry_vars, proc, task_vars, broadcaster, event_rx, connection_counter, conn, subscribers>>

\* handle_message, Ping
RecvPing(c) ==
    /\ Ready(c)
    /\ Reply(c, <<Msg("pong")>>)
    /\ UNCHANGED <<registry_vars, proc, task_vars, broadcaster, event_rx, connection_counter, conn, subscribers>>

\* payloads of status_update messages: the status line of process 1, a payload
\* that has a session_id but is no RawStatusLine, and one without session_id
StatusUpdateData ==
    {[has_session_id |-> TRUE, raw |-> StatusLineOf(1)],
     [has_session_id |-> TRUE, raw |-> NoRawStatusLine(Uuid(1))],
     [has_session_id |-> FALSE, raw |-> NoRawStatusLine(NoId)]}

\* handle_message, StatusUpdate: ConnectionHandler::handle_status_update, and
\* the error reply of process_messages when it fails
RecvStatusUpdate(c, data) ==
    /\ Ready(c)
    /\ IF ~data.has_session_id
       THEN /\ Reply(c, <<Error("Parse error")>>)
            /\ UNCHANGED <<registry_vars, event_rx>>
       ELSE LET out == handle_update_from_status_line(sessions_by_pid, session_id_to_pid,
                                                      data.raw.session_id, data.raw)
            IN /\ ChannelHas(Len(out.ev))
               /\ Commit(out)
               /\ Reply(c, IF out.res = "Ok" THEN <<>> ELSE <<Error("Registry error")>>)
    /\ UNCHANGED <<proc, task_vars, broadcaster, connection_counter, conn, subscribers>>

\* payloads of hook_event messages: a Stop hook of process 1, and a payload
\* whose hook_event_name is no HookEventType
HookEventData ==
    {[known |-> TRUE, session_id |-> Uuid(1), pid |-> 1],
     [known |-> FALSE, session_id |-> Uuid(1), pid |-> 1]}

\* handle_message, HookEvent: ConnectionHandler::handle_hook_event, and the
\* error reply of process_messages when it fails
RecvHookEvent(c, data) ==
    /\ Ready(c)
    /\ IF ~data.known
       THEN /\ Reply(c, <<Error("Parse error")>>)
            /\ UNCHANGED <<registry_vars, event_rx>>
       ELSE LET out == handle_apply_hook_event(sessions_by_pid, session_id_to_pid,
                                               data.session_id, StopCase[1], StopCase[2],
                                               StopCase[3], data.pid)
            IN /\ ChannelHas(Len(out.ev))
               /\ Commit(out)
               /\ Reply(c, IF out.res = "Ok" THEN <<>> ELSE <<Error("Registry error")>>)
    /\ UNCHANGED <<proc, task_vars, broadcaster, connection_counter, conn, subscribers>>

\* the limit test that lets an eleventh subscriber in
subscribe_rejected_above_limit(subs, client_id) ==
    Card(subs) > MAX_TUI_CLIENTS /\ client_id \notin DOMAIN subs

\* handle_message, Subscribe: the max clients limit test
subscribe_rejected(subs, client_id) ==
    Card(subs) >= MAX_TUI_CLIENTS /\ client_id \notin DOMAIN subs

\* handle_message, Subscribe, up to the release of the subscribers lock: the
\* limit test and its error reply, or the insertion into the map
RecvSubscribe(c, filter) ==
    /\ Ready(c)
    /\ IF subscribe_rejected(subscribers, conn[c].client_id)
       THEN /\ Reply(c, <<Error("Too many subscribers")>>)
            /\ UNCHANGED <<conn, subscribers>>
       ELSE /\ subscribers' = MapInsert(subscribers, conn[c].client_id,
                                        [writer |-> c, filter |-> filter])
            /\ conn' = [conn EXCEPT ![c].pc = "subscribing", ![c].subscribed = TRUE]
            /\ Reply(c, <<>>)
    /\ UNCHANGED <<registry_vars, proc, task_vars, broadcaster, event_rx, connection_counter>>

\* handle_message, Subscribe, after the lock: get_all_sessions and the
\* session_list reply
SendSessionList(c) ==
    /\ conn[c].pc = "subscribing"
    /\ sent' = [sent EXCEPT ![c] = Written(sent[c], Msg("session_list"))]
    /\ conn' = [conn EXCEPT ![c].pc = "ready"]
    /\ UNCHANGED <<registry_vars, proc, task_vars, broadcaster, event_rx, connection_counter, subscribers>>

\* handle_message, Unsubscribe
RecvUnsubscribe(c) ==
    /\ Ready(c)
    /\ subscribers' = MapRemove(subscribers, conn[c].client_id)
    /\ conn' = [conn EXCEPT ![c].subscribed = FALSE]
    /\ Reply(c, <<>>)
    /\ UNCHANGED <<registry_vars, proc, task_vars, broadcaster, event_rx, connection_counter>>

\* handle_message, Disconnect: it returns Err(Eof), which process_messages
\* answers with an error message before reading the next message
RecvDisconnect(c) ==
    /\ Ready(c)
    /\ Reply(c, <<Error("Connection closed")>>)
    /\ UNCHANGED <<registry_vars, proc, task_vars, broadcaster, event_rx, connection_counter, conn, subscribers>>

\* ways read_message fails in process_messages: the client closed the socket,
\* the line is no ClientMessage (invalid JSON, unknown message type), the
\* line is too long, nothing arrived within READ_TIMEOUT
ReadErrors == {"Eof", "ParseError", "MessageTooLarge", "Timeout"}

\* process_messages returning on a failed read, ConnectionHandler::run
\* returning the client id, and DaemonServer::handle_connection removing it
\* from the subscribers
ReadFails(c, err) ==
    /\ Ready(c)
    /\ conn' = [conn EXCEPT ![c] = [NewConnection EXCEPT !.pc = "closed", !.exit = err]]
    /\ subscribers' = MapRemove(subscribers, conn[c].client_id)
    /\ Reply(c, <<>>)
    /\ UNCHANGED <<registry_vars, proc, task_vars, broadcaster, event_rx, connection_counter>>

\* every subscriber, whatever its filter
Matching_without_filter(subs, session_id) == DOMAIN subs

\* broadcast_event, the filter check: the subscribers the event is written to
Matching(subs, session_id) ==
    {k \in DOMAIN subs : subs[k].filter \in {NoFilter, session_id}}

\* the writers of the subscribers whose filter lets the event through
Receivers(subs, session_id) == {subs[k].writer : k \in Matching(subs, session_id)}

\* the subscribers of followed connections an event of the session would be
\* written to: the ones whose write can be followed to its failure
CanFail(subs, event) ==
    IF event.type = "Registered" THEN {}
    ELSE {k \in Matching(subs, event.session_id) : subs[k].writer \in Conns}

\* the sets of subscribers whose socket write fails in the broadcast_event of
\* the oldest event of the channel q
Failures(subs, q) ==
    IF q = <<>> THEN {{}} ELSE {{}} \cup {{k} : k \in CanFail(subs, Head(q))}

\* the map without the keys of K
RemoveKeys(m, K) == [x \in (DOMAIN m) \ K |-> m[x]]

\* the event broadcaster receiving one event: broadcast_event. failed_clients
\* are the subscribers whose write fails; they are removed from the map.
Broadcast(failed_clients) ==
    /\ broadcaster = "running"
    /\ event_rx # <<>>
    /\ event_rx' = Tail(event_rx)
    /\ LET event == Head(event_rx)
           msg == IF event.type = "Updated" THEN session_updated(event.session)
                  ELSE session_removed(event.session_id)
       IN IF event.type = "Registered"
          THEN UNCHANGED <<sent, subscribers>>
          ELSE /\ sent' = [c \in DOMAIN sent |->
                              IF c \in Receivers(subscribers, event.session_id)
                              THEN Written(sent[c], msg) ELSE sent[c]]
               /\ subscribers' = RemoveKeys(subscribers, failed_clients)
    /\ UNCHANGED <<registry_vars, proc, task_vars, broadcaster, connection_counter, conn>>

(***************************************************************************)
(* SpecServer: the running daemon serving the connections it accepts, with *)
(* all or all but one of the earlier connections subscribed, while status  *)
(* lines reach the registry                                                *)
(***************************************************************************)
\* the subscribers map holding the first n earlier connections
EarlierSubscribers(n) ==
    [id \in {SynthesizedId(k) : k \in 0..(n - 1)} |-> [writer |-> id[2], filter |-> NoFilter]]

InitServer ==
    /\ InitRegistry(0)
    /\ proc = AllAlive
    /\ broadcaster = "running"
    /\ event_rx = <<>>
    /\ connection_counter = EarlierConnections
    /\ conn = [c \in Conns |-> NewConnection]
    /\ \E n \in {EarlierConnections - 1, EarlierConnections} :
          subscribers = EarlierSubscribers(n)
    /\ sent = [c \in Conns |-> <<>>]
    /\ Listening(Conns)

\* a status line of process 1 reaching the registry from another client
StatusLineArrives ==
    /\ ChannelHas(2)
    /\ UpdateFromStatusLine(StatusLineOf(1))

NextServer ==
    \/ Accept
    \/ \E c \in Conns, first \in FirstMessages : Handshake(c, first)
    \/ \E c \in Conns : RecvConnect(c)
    \/ \E c \in Conns, data \in StatusUpdateData : RecvStatusUpdate(c, data)
    \/ \E c \in Conns, data \in HookEventData : RecvHookEvent(c, data)
    \/ \E c \in Conns : RecvListSessions(c)
    \/ \E c \in Conns, filter \in {NoFilter, Uuid(1)} : RecvSubscribe(c, filter)
    \/ \E c \in Conns : SendSessionList(c)
    \/ \E c \in Conns : RecvUnsubscribe(c)
    \/ \E c \in Conns : RecvPing(c)
    \/ \E c \in Conns : RecvDisconnect(c)
    \/ \E c \in Conns, err \in ReadErrors : ReadFails(c, err)
    \/ Broadcast({})
    \/ StatusLineArrives

SpecServer == InitServer /\ [][NextServer]_vars

\* C7: once a client's Subscribe has been accepted, nothing is delivered to
\* it before the session_list snapshot.
C7_SnapshotFirst ==
    \A c \in Conns : conn[c].pc = "subscribing" => sent[c] = <<>>

C9_DisconnectCloses ==
    [][\A c \in Conns :
          RecvDisconnect(c) =>
             /\ sent'[c] = <<>>
             /\ conn'[c].pc = "closed"
             /\ conn[c].client_id \notin DOMAIN subscribers']_vars

\* the connection c has just been answered with exactly one error message,
\* the registry is as it was and the connection goes on serving
ErrorAndContinue(c) ==
    /\ Len(sent'[c]) = 1 /\ sent'[c][1].type = "error"
    /\ UNCHANGED <<sessions_by_pid, session_id_to_pid>>
    /\ conn'[c].pc = "ready"

\* C10: after the handshake a request with an unknown message type, a
\* status_update without session_id or a hook_event with an unknown
\* hook_event_name is answered with exactly one error message, leaves the
\* registry unchanged and the connection goes on serving.
C10_MalformedAnswered ==
    [][\A c \in Conns :
          /\ (\E data \in StatusUpdateData :
                 ~data.has_session_id /\ RecvStatusUpdate(c, data)) => ErrorAndContinue(c)
          /\ (\E data \in HookEventData :
                 ~data.known /\ RecvHookEvent(c, data)) => ErrorAndContinue(c)
          /\ (Ready(c) /\ conn'[c].exit = "ParseError") => ErrorAndContinue(c)]_vars

(***************************************************************************)
(* SpecBroadcast: a client subscribes, with or without a filter, while the *)
(* processes send status lines and the session of process 1 ends, the      *)
(* broadcaster forwards or lags behind, and socket writes may fail         *)
(***************************************************************************)
\* filters a client subscribes with: none, or the session of process 1
BroadcastFilters == {NoFilter, Uuid(1)}

ConnectWithoutId == Line(1, "connect", CURRENT, NoId)

InitBroadcast ==
    /\ InitRegistry(0)
    /\ proc = AllAlive
    /\ broadcaster = "running"
    /\ event_rx = <<>>
    /\ connection_counter = EarlierConnections
    /\ conn = [c \in Conns |-> NewConnection]
    /\ subscribers = EarlierSubscribers(0)
    /\ sent = [c \in Conns |-> <<>>]
    /\ Listening(Conns)

NextBroadcast ==
    \/ Accept
    \/ \E c \in Conns : Handshake(c, ConnectWithoutId)
    \/ \E c \in Conns, filter \in BroadcastFilters : RecvSubscribe(c, filter)
    \/ \E c \in Conns : SendSessionList(c)
    \/ \E pid \in ActivePids : UpdateFromStatusLine(StatusLineOf(pid))
    \/ ApplyHookEvent(Uuid(1), SessionEndCase, 1)
    \/ \E failed_clients \in Failures(subscribers, event_rx) : Broadcast(failed_clients)

SpecBroadcast == InitBroadcast /\ [][NextBroadcast]_vars

\* the message broadcast_event builds for an Updated or a Removed event
MessageOf(event) ==
    IF event.type = "Updated" THEN session_updated(event.session)
    ELSE session_removed(event.session_id)

\* the connection c is sent exactly the message msg in this step
SentOne(c, msg) ==
    IF Len(sent[c]) < MaxSent THEN sent'[c] = Append(sent[c], msg) ELSE sent'[c] = sent[c]

IsSuffix(q, s) == Len(q) <= Len(s) /\ q = Newest(s, Len(q))

\* C12: the channel hands events to the broadcaster in the order the registry
\* emitted them: a command's events are queued behind all pending ones, in
\* their order, and only the oldest pending events are ever dropped; every
\* session_updated or session_removed written to a subscriber is the message
\* of the oldest pending event, after which exactly the later events remain
\* pending. Hence no subscriber receives two messages in another order than
\* the one their events were emitted in.
C12_OrderPreserved ==
    [][/\ \/ IsSuffix(event_rx', event_rx)
          \/ IsSuffix(event_rx', event_rx \o events')
       /\ \A c \in Conns :
             (/\ Len(sent'[c]) = Len(sent[c]) + 1
              /\ sent'[c][Len(sent'[c])].type \in {"session_updated", "session_removed"}) =>
                /\ event_rx # <<>>
                /\ sent'[c] = Append(sent[c], MessageOf(Head(event_rx)))
                /\ event_rx' = Tail(event_rx)
      ]_vars

\* a subscriber has been sent the update of a session and then its removal
C12_Witness ==
    \E c \in Conns :
       /\ Len(sent[c]) = 2
       /\ sent[c][1].type = "session_updated"
       /\ sent[c][2].type = "session_removed"
       /\ sent[c][2].session_id = sent[c][1].session_id

(***************************************************************************)
(* Registration events                                                     *)
(***************************************************************************)

\* the Updated event that follows the Registered event at position i of the
\* events published by one command
FollowedByUpdated(evs, i) ==
    /\ i < Len(evs)
    /\ evs[i + 1].type = "Updated"
    /\ evs[i + 1].session_id = evs[i].session_id

\* C13: every Registered event the registry publishes is followed, before
\* any event of another command, by an Updated event of the same session id
C13_RegisteredThenUpdated ==
    \A i \in 1..Len(events) :
        events[i].type = "Registered" => FollowedByUpdated(events, i)

(***************************************************************************)
(* SpecStatusLine: discovery, status lines and hook events of one process, *)
(* the status lines with every combination of their optional fields and    *)
(* the payloads with a pid, with pid 0 and without pid                     *)
(***************************************************************************)
\* cost and context_window of a status line: absent, or a total
FieldValues == {AbsentField} \cup (0..MaxCost)

\* pid of a payload about the process: absent, 0, or its pid
OnePidPayloadPids == {AbsentPid, 0, OnePid}

FieldStatusLines ==
    {RawStatusLine(s, p, m, c, w) :
        s \in Sids, p \in OnePidPayloadPids, m \in {"none", "Sonnet4"},
        c \in FieldValues, w \in FieldValues}

NextStatusLine ==
    \/ \E pid \in {0, OnePid} : RegisterDiscovered(pending_from_pid(OnePid), pid)
    \/ \E raw \in FieldStatusLines : UpdateFromStatusLine(raw)
    \/ \E sid \in Sids, hc \in StatusHookCases, pid \in OnePidPayloadPids :
          ApplyHookEvent(sid, hc, pid)

SpecStatusLine == Init /\ [][NextStatusLine]_vars

\* the entry under pid counted a status line in this step
CountedUpdate(pid) ==
    sessions_by_pid'[pid].infra.update_count = sessions_by_pid[pid].infra.update_count + 1

\* C14: a status-line update leaves an AttentionNeeded session AttentionNeeded
\* and sets the session it is applied to, if Idle or Working, to Working
C14_AttentionKept ==
    [][\A raw \in FieldStatusLines :
          UpdateFromStatusLine(raw) =>
             \A pid \in DOMAIN sessions_by_pid \cap DOMAIN sessions_by_pid' :
                /\ sessions_by_pid[pid].domain.status = "AttentionNeeded"
                      => sessions_by_pid'[pid].domain.status = "AttentionNeeded"
                /\ (sessions_by_pid[pid].domain.status \in {"Idle", "Working"}
                        /\ CountedUpdate(pid))
                      => sessions_by_pid'[pid].domain.status = "Working"]_vars

\* a status line has upgraded a session that was waiting for the user: the
\* view published after the upgrade is still AttentionNeeded
C14_Witness ==
    /\ Len(events) = 3
    /\ events[1].type = "Removed"
    /\ events[3].type = "Updated"
    /\ events[3].session.status = "AttentionNeeded"

\* RegisterDiscovered of session id sid for pid upgrades the entry of pid
IsDiscoveredUpgrade(sid, pid) ==
    /\ pid \in DOMAIN sessions_by_pid
    /\ sessions_by_pid[pid].domain.id # sid

\* C15: an upgrade keeps the entry's Infrastructure record: after an upgrade by
\* RegisterDiscovered it is the same as before, and after an upgrade by a
\* status line it differs only by the update counter, which is one higher
C15_UpgradeKeepsInfra ==
    [][/\ \A raw \in FieldStatusLines :
             (IsUpgrade(raw) /\ UpdateFromStatusLine(raw)) =>
                 sessions_by_pid'[raw.pid].infra =
                     [sessions_by_pid[raw.pid].infra EXCEPT !.update_count = @ + 1]
       /\ (IsDiscoveredUpgrade(pending_from_pid(OnePid), OnePid)
              /\ RegisterDiscovered(pending_from_pid(OnePid), OnePid)) =>
                 sessions_by_pid'[OnePid].infra = sessions_by_pid[OnePid].infra]_vars

\* RegisterDiscovered has upgraded (the published view is Idle) an entry that
\* had recorded a tool use and counted a status line
C15_Witness ==
    /\ Len(events) = 3
    /\ events[1].type = "Removed"
    /\ events[3].session.status = "Idle"
    /\ OnePid \in DOMAIN sessions_by_pid
    /\ sessions_by_pid[OnePid].infra.hook_event_count > 0
    /\ sessions_by_pid[OnePid].infra.recent_tools # <<>>
    /\ sessions_by_pid[OnePid].infra.update_count > 0
    /\ sessions_by_pid[OnePid].infra.process_start_time > 0

\* C16: register_discovered for a process that already has an entry, pending
\* or upgraded, returns Ok and changes nothing: the entry, the index and the
\* events published are as if it had not been called
C16_DiscoveryNoOp ==
    [][(OnePid \in DOMAIN sessions_by_pid
           /\ RegisterDiscovered(pending_from_pid(OnePid), OnePid)) =>
          /\ result' = "Ok"
          /\ sessions_by_pid' = sessions_by_pid
          /\ session_id_to_pid' = session_id_to_pid
          /\ events' = <<>>]_vars

\* the domain fields of after that a status line raw does not supply are those
\* of before (the status follows the status-line rule and is not compared)
UnsuppliedKept(raw, before, after) ==
    /\ after.current_activity = before.current_activity
    /\ raw.model = "none" => after.model = before.model
    /\ raw.cost = AbsentField => after.cost = before.cost
    /\ raw.context_window = AbsentField => after.context = before.context

\* C17: an upgrade replaces only the session id: after an upgrade by
\* RegisterDiscovered the domain differs from the one before in the id alone,
\* and after an upgrade by a status line every field the status line does not
\* supply is as before
C17_UpgradeReplacesIdOnly ==
    [][/\ (IsDiscoveredUpgrade(pending_from_pid(OnePid), OnePid)
              /\ RegisterDiscovered(pending_from_pid(OnePid), OnePid)) =>
                 sessions_by_pid'[OnePid].domain =
                     [sessions_by_pid[OnePid].domain EXCEPT !.id = pending_from_pid(OnePid)]
       /\ \A raw \in FieldStatusLines :
             (IsUpgrade(raw) /\ UpdateFromStatusLine(raw)) =>
                 /\ sessions_by_pid'[raw.pid].domain.id = raw.session_id
                 /\ UnsuppliedKept(raw, sessions_by_pid[raw.pid].domain,
                                   sessions_by_pid'[raw.pid].domain)]_vars

\* the command changed nothing and published nothing, and replied Ok
OkAndNothing ==
    /\ result' = "Ok"
    /\ sessions_by_pid' = sessions_by_pid
    /\ session_id_to_pid' = session_id_to_pid
    /\ events' = <<>>

\* the entry under pid was updated by a status line: it counted the update and
\* its view was published last
UpdatedEntry(pid) ==
    /\ result' = "Ok"
    /\ pid \in DOMAIN sessions_by_pid'
    /\ CountedUpdate(pid)
    /\ events' # <<>>
    /\ events'[Len(events')] = Updated(SessionView_from_domain(sessions_by_pid'[pid].domain))

IsPlainUpdate(raw) ==
    /\ raw.valid
    /\ raw.pid \in DOMAIN sessions_by_pid
    /\ sessions_by_pid[raw.pid].domain.id = raw.session_id

\* C19: updating an existing session from a status line changes only the
\* fields present in the payload: without cost the stored cost, without
\* context_window the stored context usage and without model the stored model
\* are as before, and the id and the activity detail never change
C19_AbsentFieldsKept ==
    [][\A raw \in FieldStatusLines :
          (IsPlainUpdate(raw) /\ UpdateFromStatusLine(raw)) =>
              /\ sessions_by_pid'[raw.pid].domain.id = sessions_by_pid[raw.pid].domain.id
              /\ UnsuppliedKept(raw, sessions_by_pid[raw.pid].domain,
                                sessions_by_pid'[raw.pid].domain)]_vars

\* the command left the registry as it was and published nothing
NoMutation ==
    /\ sessions_by_pid' = sessions_by_pid
    /\ session_id_to_pid' = session_id_to_pid
    /\ events' = <<>>

\* C20: a command carrying pid 0 (RegisterDiscovered, a status line or a hook
\* event) does not change the registry and publishes no event, and no entry
\* is keyed by pid 0
C20_PidZeroRejected ==
    [][/\ RegisterDiscovered(pending_from_pid(OnePid), 0) => NoMutation
       /\ \A raw \in {r \in FieldStatusLines : r.pid = 0} :
             UpdateFromStatusLine(raw) => NoMutation
       /\ \A sid \in Sids, hc \in StatusHookCases :
             ApplyHookEvent(sid, hc, 0) => NoMutation
       /\ 0 \notin DOMAIN sessions_by_pid']_vars

(***************************************************************************)
(* SpecLifecycle: connections from accept to close (handshakes of any      *)
(* version, lines of any length, subscriptions, failed reads) and the      *)
(* shutdown of the server by the cancellation token                        *)
(***************************************************************************)
\* the connections followed: one more than MaxConn, so that a client can
\* connect after another connection has been closed
LifecycleConns == EarlierConnections .. (EarlierConnections + MaxConn)

\* line lengths around the limit of read_message
FrameLens == {1, MAX_MESSAGE_SIZE, MAX_MESSAGE_SIZE + 1}

\* first lines: the first messages, and Connect lines at and beyond the limit
LifecycleFirst ==
    FirstMessages
    \cup {Line(len, "connect", CURRENT, NoId) : len \in FrameLens}

\* a status_update line of len bytes carrying the status line of process 1
StatusUpdateLine(len) == Line(len, "status_update", CURRENT, NoId)

\* process_messages reading a status_update line of len bytes: read_message
\* fails on it, or handle_message applies it
RecvStatusUpdateLine(c, len) ==
    IF read_message(StatusUpdateLine(len)) # "Ok"
    THEN ReadFails(c, read_message(StatusUpdateLine(len)))
    ELSE RecvStatusUpdate(c, [has_session_id |-> TRUE, raw |-> StatusLineOf(1)])

\* the shutdown signal: CancellationToken::cancel
Cancel ==
    /\ listener = "accepting"
    /\ ~cancel_token
    /\ cancel_token' = TRUE
    /\ UNCHANGED <<registry_vars, proc, event_rx, broadcaster, connection_counter,
                   conn, subscribers, sent, listener, socket_file, peer>>

\* DaemonServer::run: the accept loop sees the cancellation and breaks
StopAccepting ==
    /\ cancel_token
    /\ listener = "accepting"
    /\ listener' = "cleanup"
    /\ UNCHANGED <<registry_vars, proc, event_rx, broadcaster, connection_counter,
                   conn, subscribers, sent, cancel_token, socket_file, peer>>

\* DaemonServer::cleanup: under the write lock the subscribers are cleared,
\* then the socket file is removed
Cleanup ==
    /\ listener = "cleanup"
    /\ broadcaster # "writing"
    /\ subscribers' = EmptyMap
    /\ socket_file' = FALSE
    /\ listener' = "stopped"
    /\ UNCHANGED <<registry_vars, proc, event_rx, broadcaster, connection_counter,
                   conn, sent, cancel_token, peer>>

\* spawn_event_broadcaster: the task sees the cancellation and breaks; its
\* receiver is dropped with the events it had not received
BroadcasterExits ==
    /\ cancel_token
    /\ broadcaster = "running"
    /\ broadcaster' = "stopped"
    /\ event_rx' = <<>>
    /\ UNCHANGED <<registry_vars, proc, connection_counter, conn, subscribers, sent,
                   cancel_token, listener, socket_file, peer>>

InitLifecycle ==
    /\ InitRegistry(0)
    /\ proc = AllAlive
    /\ broadcaster = "running"
    /\ event_rx = <<>>
    /\ connection_counter = EarlierConnections
    /\ conn = [c \in LifecycleConns |-> NewConnection]
    /\ \E n \in {0, 1} : subscribers = EarlierSubscribers(n)
    /\ sent = [c \in LifecycleConns |-> <<>>]
    /\ Listening(LifecycleConns)

NextLifecycle ==
    \/ Accept
    \/ \E c \in LifecycleConns, first \in LifecycleFirst : Handshake(c, first)
    \/ \E c \in LifecycleConns : RecvConnect(c)
    \/ \E c \in LifecycleConns, len \in FrameLens : RecvStatusUpdateLine(c, len)
    \/ \E c \in LifecycleConns : RecvSubscribe(c, NoFilter)
    \/ \E c \in LifecycleConns : SendSessionList(c)
    \/ \E c \in LifecycleConns : ReadFails(c, "Eof")
    \/ Broadcast({})

SpecLifecycle == InitLifecycle /\ [][NextLifecycle]_vars

\* C21: a Connect whose major version differs from the server's is answered
\* with exactly one rejected message and the connection is closed, with no
\* client id, no subscriber entry and no registry change; a Connect of the
\* server's major version and any minor version is answered with connected
C21_VersionHandshake ==
    [][\A c \in LifecycleConns, first \in LifecycleFirst :
          (first.kind = "connect" /\ first.len <= MAX_MESSAGE_SIZE /\ Handshake(c, first)) =>
              IF first.version.major # CURRENT.major
              THEN /\ sent'[c] = <<Msg("rejected")>>
                   /\ conn'[c].pc = "closed"
                   /\ conn'[c].client_id = NoId
                   /\ subscribers' = subscribers
                   /\ UNCHANGED <<sessions_by_pid, session_id_to_pid, events>>
              ELSE /\ sent'[c] = <<Msg("connected")>>
                   /\ conn'[c].pc = "ready"
                   /\ conn'[c].client_id # NoId]_vars

\* a connection has been closed after a rejected reply and another, of the
\* same major and a later minor version, has been accepted
C21_Witness ==
    \E c, other \in LifecycleConns :
       /\ conn[c].exit = "VersionMismatch"
       /\ sent[c] = <<Msg("rejected")>>
       /\ conn[c].client_id = NoId
       /\ conn[other].pc = "ready"
       /\ sent[other] = <<Msg("connected")>>

\* the handshake of c has closed the connection after the one reply msg and
\* left the registry and the subscribers as they were
ClosedWith(c, msg) ==
    /\ sent'[c] = <<msg>>
    /\ conn'[c].pc = "closed"
    /\ conn'[c].client_id = NoId
    /\ subscribers' = subscribers
    /\ UNCHANGED <<sessions_by_pid, session_id_to_pid, events>>

\* requests are taken only from a connection whose handshake was completed,
\* and a second Connect is answered with an error and changes nothing
RequestsAfterHandshake(c) ==
    /\ (\E len \in FrameLens : RecvStatusUpdateLine(c, len))
          => conn[c].pc = "ready" /\ conn[c].client_id # NoId
    /\ RecvSubscribe(c, NoFilter)
          => conn[c].pc = "ready" /\ conn[c].client_id # NoId
    /\ RecvConnect(c)
          => /\ sent'[c] = <<Error("Already connected")>>
             /\ conn' = conn
             /\ subscribers' = subscribers
             /\ UNCHANGED <<sessions_by_pid, session_id_to_pid, events>>

OthersUnaffected(c) ==
    /\ \A other \in LifecycleConns \ {c} :
          conn'[other] = conn[other] /\ sent'[other] = sent[other]
    /\ UNCHANGED <<listener, connection_counter, broadcaster>>

\* C23: a line longer than MAX_MESSAGE_SIZE closes its connection without
\* being applied, in the handshake and after it: the registry is unchanged,
\* the other connections and the accept loop are unaffected, and a Connect
\* of another client is accepted afterwards
C23_OversizeCloses ==
    [][\A c \in LifecycleConns :
          /\ \A len \in FrameLens :
                (len > MAX_MESSAGE_SIZE /\ RecvStatusUpdateLine(c, len)) =>
                    /\ conn'[c].pc = "closed"
                    /\ conn'[c].exit = "MessageTooLarge"
                    /\ sent'[c] = <<>>
                    /\ UNCHANGED <<sessions_by_pid, session_id_to_pid, events>>
                    /\ OthersUnaffected(c)
          /\ \A first \in LifecycleFirst :
                /\ (first.len > MAX_MESSAGE_SIZE /\ Handshake(c, first)) =>
                      /\ conn'[c].pc = "closed"
                      /\ conn'[c].exit = "MessageTooLarge"
                      /\ sent'[c] = <<>>
                      /\ UNCHANGED <<sessions_by_pid, session_id_to_pid, events>>
                      /\ OthersUnaffected(c)
                /\ ((\E other \in LifecycleConns : conn[other].exit = "MessageTooLarge")
                       /\ first.kind = "connect" /\ first.len <= MAX_MESSAGE_SIZE
                       /\ first.version.major = CURRENT.major
                       /\ Handshake(c, first)) =>
                      /\ conn'[c].pc = "ready"
                      /\ sent'[c] = <<Msg("connected")>>]_vars

\* a connection has been closed for a line that was too long while the
\* registry held a session, and a connection accepted after it is served
C23_Witness ==
    \E c, other \in LifecycleConns :
       /\ c < other
       /\ conn[c].exit = "MessageTooLarge"
       /\ conn[other].pc = "ready"
       /\ sent[other] = <<Msg("connected")>>
       /\ sessions_by_pid # EmptyMap

(***************************************************************************)
(* SpecShutdown: subscribers whose clients stop reading or go silent, the  *)
(* broadcaster writing to them under the read lock of the subscribers map, *)
(* handlers exiting, and the shutdown by the cancellation token. Steps of  *)
(* the server's tasks are taken fairly; the clients and the shutdown       *)
(* signal are under no obligation                                          *)
(***************************************************************************)
\* Connect lines of the server's version, with and without a client id
ConnectLines == {Line(1, "connect", CURRENT, id) : id \in {NoId} \cup ClientNames}

\* the client of c takes part: it sends requests and reads its socket
Active(c) == peer[c] = "reading"

\* the subscribers map is not read-locked by a broadcast_event that waits for
\* a socket, so subscribers.write() is granted
LockFree == broadcaster # "writing"

\* the connections whose client has stopped reading and to which the oldest
\* event of the channel would be written
StalledReceivers ==
    IF event_rx = <<>> \/ Head(event_rx).type = "Registered" THEN {}
    ELSE {c \in Receivers(subscribers, Head(event_rx).session_id) \cap DOMAIN peer :
             peer[c] = "stalled"}

\* a client stops reading its socket while it stays connected, and sends
\* nothing more; the model follows one such client
PeerStalls(c) ==
    /\ conn[c].pc = "ready"
    /\ peer[c] = "reading"
    /\ \A other \in DOMAIN peer : peer[other] # "stalled"
    /\ peer' = [peer EXCEPT ![c] = "stalled"]
    /\ UNCHANGED <<registry_vars, proc, event_rx, broadcaster, connection_counter,
                   conn, subscribers, sent, cancel_token, listener, socket_file>>

\* a client sends nothing more but keeps reading
PeerSilent(c) ==
    /\ conn[c].pc \in {"handshake", "ready"}
    /\ peer[c] = "reading"
    /\ peer' = [peer EXCEPT ![c] = "silent"]
    /\ UNCHANGED <<registry_vars, proc, event_rx, broadcaster, connection_counter,
                   conn, subscribers, sent, cancel_token, listener, socket_file>>

\* broadcast_event reaching a subscriber whose socket takes no more data: the
\* write_all has no timeout, so the task waits in it, holding the read lock;
\* written are the subscribers the iteration of the map had reached before
BroadcastStalls(written) ==
    /\ broadcaster = "running"
    /\ StalledReceivers # {}
    /\ broadcaster' = "writing"
    /\ event_rx' = Tail(event_rx)
    /\ sent' = [c \in DOMAIN sent |->
                   IF c \in written
                   THEN Written(sent[c], MessageOf(Head(event_rx))) ELSE sent[c]]
    /\ UNCHANGED <<registry_vars, proc, connection_counter, conn, subscribers,
                   cancel_token, listener, socket_file, peer>>

\* a broadcast_event that asks for the write lock while it still holds the
\* read lock: it waits for itself, and the failed subscriber stays
remove_under_read_lock(subs, c) == [broadcaster |-> "writing", subscribers |-> subs]

\* broadcast_event after its loop: drop(subs) releases the read lock, then
\* the failed clients are removed under the write lock
drop_then_remove(subs, c) ==
    [broadcaster |-> "running",
     subscribers |-> RemoveKeys(subs, {k \in DOMAIN subs : subs[k].writer = c})]

\* the client that had stopped reading closes its socket: the pending write
\* fails, broadcast_event removes the subscriber and the broadcaster goes on
WriteFails(c) ==
    /\ broadcaster = "writing"
    /\ peer[c] = "stalled"
    /\ peer' = [peer EXCEPT ![c] = "closed"]
    /\ broadcaster' = drop_then_remove(subscribers, c).broadcaster
    /\ subscribers' = drop_then_remove(subscribers, c).subscribers
    /\ UNCHANGED <<registry_vars, proc, event_rx, connection_counter, conn, sent,
                   cancel_token, listener, socket_file>>

\* process_messages returns and run returns the client id while the
\* subscribers map is read-locked: handle_connection waits for the write lock
ExitAwaitsLock(c, err) ==
    /\ Ready(c)
    /\ ~LockFree
    /\ conn' = [conn EXCEPT ![c].pc = "exited", ![c].exit = err]
    /\ Reply(c, <<>>)
    /\ UNCHANGED <<registry_vars, proc, task_vars, broadcaster, event_rx,
                   connection_counter, subscribers>>

\* handle_connection is granted the write lock and removes the client id
RemoveSubscriber(c) ==
    /\ conn[c].pc = "exited"
    /\ LockFree
    /\ subscribers' = MapRemove(subscribers, conn[c].client_id)
    /\ conn' = [conn EXCEPT ![c] = [NewConnection EXCEPT !.pc = "closed",
                                                         !.exit = conn[c].exit]]
    /\ UNCHANGED <<registry_vars, proc, task_vars, broadcaster, event_rx,
                   connection_counter, sent>>

\* the read of process_messages fails: the client closed its end, or
\* READ_TIMEOUT passed without a line from it
ReadEnds(c, err) ==
    /\ \/ err = "Eof" /\ peer[c] \in {"reading", "closed"}
       \/ err = "Timeout" /\ peer[c] \in {"silent", "stalled"}
    /\ \/ LockFree /\ ReadFails(c, err)
       \/ ExitAwaitsLock(c, err)

\* the broadcaster receives an event none of whose subscribers is stalled
BroadcastFlows == StalledReceivers = {} /\ Broadcast({})

NextShutdown ==
    \/ Accept
    \/ \E c \in LifecycleConns, first \in ConnectLines : Active(c) /\ Handshake(c, first)
    \/ \E c \in LifecycleConns : Active(c) /\ LockFree /\ RecvSubscribe(c, NoFilter)
    \/ \E c \in LifecycleConns : SendSessionList(c)
    \/ \E c \in LifecycleConns : Active(c) /\ LockFree /\ RecvUnsubscribe(c)
    \/ \E c \in LifecycleConns : Active(c) /\ RecvPing(c)
    \/ \E c \in LifecycleConns, err \in {"Eof", "Timeout"} : ReadEnds(c, err)
    \/ \E c \in LifecycleConns : RemoveSubscriber(c)
    \/ \E c \in LifecycleConns : PeerStalls(c)
    \/ \E c \in LifecycleConns : PeerSilent(c)
    \/ \E c \in LifecycleConns : WriteFails(c)
    \/ StatusLineArrives
    \/ BroadcastFlows
    \/ \E written \in SUBSET (Receivers(subscribers, Uuid(1)) \cap DOMAIN sent) :
          BroadcastStalls(written \ StalledReceivers)
    \/ Cancel
    \/ StopAccepting
    \/ Cleanup
    \/ BroadcasterExits

\* the server's tasks run whenever they can: the accept loop and the
\* broadcaster see the cancellation, the broadcaster receives, the handlers
\* finish their replies, time out on silent clients and remove their entries.
\* A client that takes part after its handshake keeps sending, a Ping at
\* least: one that has stopped sending is a silent client, which READ_TIMEOUT
\* ends
FairShutdown ==
    /\ WF_vars(StopAccepting)
    /\ WF_vars(Cleanup)
    /\ WF_vars(BroadcasterExits)
    /\ WF_vars(BroadcastFlows)
    /\ \A c \in LifecycleConns :
          /\ WF_vars(SendSessionList(c))
          /\ WF_vars(RemoveSubscriber(c))
          /\ WF_vars(ReadEnds(c, "Timeout"))
          /\ WF_vars(Active(c) /\ RecvPing(c))

SpecShutdown == InitLifecycle /\ [][NextShutdown]_vars /\ FairShutdown


\* the subscribers map holds an entry that writes to connection c
Subscribed(c) == \E k \in DOMAIN subscribers : subscribers[k].writer = c

\* C24: whenever a connection handler has exited, whatever ended it, the
\* entry of its client is eventually removed from the subscribers map and
\* the connection is closed
C24_ExitRemovesSubscriber ==
    \A c \in LifecycleConns : (conn[c].pc = "exited") ~> (conn[c].pc = "closed")

\* C26: a subscriber to which the broadcaster's write is stuck is eventually
\* dropped from the subscribers map and the broadcaster goes on, so that it
\* is never blocked for good
C26_StuckSubscriberDropped ==
    \A c \in LifecycleConns :
        (broadcaster = "writing" /\ peer[c] = "stalled")
            ~> (broadcaster # "writing" /\ ~Subscribed(c))


\* C25: an Unsubscribe leaves the client out of the subscribers map and its
\* connection open and unanswered, an Unsubscribe of a client that had not
\* subscribed changes nothing at all, and no event of a session is written to
\* a connection that is not subscribed
C25_UnsubscribeStops ==
    [][\A c \in LifecycleConns :
          /\ (Ready(c) /\ RecvUnsubscribe(c)) =>
                /\ conn[c].client_id \notin DOMAIN subscribers'
                /\ Ready(c)'
                /\ sent'[c] = <<>>
                /\ ~conn[c].subscribed => subscribers' = subscribers
          /\ (~conn[c].subscribed /\ event_rx # <<>> /\ event_rx' = Tail(event_rx)) =>
                sent'[c] = sent[c]]_vars


\* C29: once the server has shut down after the cancellation, the subscribers
\* map is empty and stays empty, the socket file is gone and no further
\* connection is accepted
C29_ShutdownEmptiesSubscribers ==
    [][listener' = "stopped" =>
          /\ subscribers' = EmptyMap
          /\ socket_file' = FALSE
          /\ listener = "stopped" => connection_counter' = connection_counter]_vars


\* the accept loop, the broadcaster and every connection handler have ended
TasksExited ==
    /\ listener = "stopped"
    /\ broadcaster = "stopped"
    /\ \A c \in LifecycleConns : conn[c].pc \in {"idle", "closed"}

\* C28: once the cancellation token is cancelled, the accept loop, the
\* broadcaster and every connection handler eventually exit
C28_CancelEndsTasks == cancel_token ~> TasksExited

\* C30: a connection whose client never sends its first message is
\* eventually closed by the server
C30_SilentHandshakeCloses ==
    \A c \in LifecycleConns :
        (conn[c].pc = "handshake" /\ peer[c] = "silent") ~> (conn[c].pc = "closed")


(***************************************************************************)
(* SpecPublish: the registry actor publishing the events of its commands   *)
(* while the broadcaster does not get to receive them, and after the       *)
(* broadcaster has exited on the cancellation                              *)
(***************************************************************************)
NextPublish ==
    \/ \E pid \in ActivePids : RegisterDiscovered(pending_from_pid(pid), pid)
    \/ \E pid \in ActivePids : UpdateFromStatusLine(StatusLineOf(pid))
    \/ \E pid \in ActivePids : ApplyHookEvent(Uuid(pid), SessionEndCase, pid)
    \/ \E sid \in Sids : Remove(sid)
    \/ Cancel
    \/ BroadcasterExits

SpecPublish == InitBroadcast /\ [][NextPublish]_vars

\* the step is a command of the registry actor
Commanded == registry_vars' # registry_vars

ToolNames ==
    {"AskUserQuestion", "EnterPlanMode", "ExitPlanMode", " AskUserQuestion ",
     "askuserquestion", "Bash", ""}

\* notification_type of the notifications: the three that change the status,
\* another one, and none
NotificationTypes ==
    {"permission_prompt", "idle_prompt", "elicitation_dialog", "auth_success", "none"}

\* (event type, tool name, notification type) of the hook events: PreToolUse
\* with every tool name and without one, the other kinds with a tool name
\* and without one, the notifications of every type
AllHookCases ==
    {<<"PreToolUse", tool, "none">> : tool \in {"none"} \cup ToolNames}
        \cup {<<type, tool, "none">> : type \in HookEventTypes \ {"PreToolUse", "Notification"},
                                        tool \in {"none", "Bash"}}
        \cup {<<"Notification", "none", type>> : type \in NotificationTypes}

NextHooks ==
    \E sid \in Sids, hc \in AllHookCases, pid \in OnePidPayloadPids :
        ApplyHookEvent(sid, hc, pid)

SpecHooks == Init /\ [][NextHooks]_vars

\* the status the transition table gives for a hook event, "any" where the
\* table has no row for it
TableStatus(hc) ==
    CASE hc[1] = "PreToolUse" /\ hc[2] # "none" ->
            IF trim(hc[2]) \in {"AskUserQuestion", "EnterPlanMode", "ExitPlanMode"}
            THEN "AttentionNeeded" ELSE "Working"
      [] hc[1] \in {"PostToolUse", "PostToolUseFailure", "UserPromptSubmit",
                    "PreCompact", "Setup"} -> "Working"
      [] hc[1] \in {"Stop", "SessionStart"} -> "Idle"
      [] hc[1] = "Notification" /\ hc[3] \in {"permission_prompt", "elicitation_dialog"} ->
            "AttentionNeeded"
      [] hc[1] = "Notification" /\ hc[3] = "idle_prompt" -> "Idle"
      [] OTHER -> "any"

\* C31: whatever the status of a session, a hook event for it leaves it with
\* the status of the transition table: AttentionNeeded after PreToolUse with
\* an interactive tool (compared after trim, case-sensitively) and after a
\* permission_prompt or elicitation_dialog notification, Working after
\* PreToolUse with any other tool name and after PostToolUse,
\* PostToolUseFailure, UserPromptSubmit, PreCompact and Setup, Idle after
\* Stop, SessionStart and an idle_prompt notification
C31_StatusFromEvent ==
    [][\A sid \in Sids, hc \in AllHookCases :
          (TableStatus(hc) # "any" /\ ApplyHookEvent(sid, hc, OnePid)) =>
              /\ OnePid \in DOMAIN sessions_by_pid'
              /\ sessions_by_pid'[OnePid].domain.status = TableStatus(hc)]_vars

\* the session needs attention after a PreToolUse whose interactive tool
\* name was sent with whitespace around it
C31_Witness ==
    /\ OnePid \in DOMAIN sessions_by_pid
    /\ sessions_by_pid[OnePid].domain.status = "AttentionNeeded"
    /\ sessions_by_pid[OnePid].domain.current_activity = " AskUserQuestion "

(***************************************************************************)
(* SpecRegistrations: registrations and removals on a registry that        *)
(* earlier registrations have filled to one or two entries below capacity  *)
(***************************************************************************)
InitRegistrations ==
    /\ \E n \in {MAX_SESSIONS - 2, MAX_SESSIONS - 1} : InitRegistry(n)
    /\ proc = AllAlive
    /\ NoServer

\* session ids of removals: the ones the commands register and the one of
\* the first background session
RemovedSids == Sids \cup {pending_from_pid(BackgroundPid(1))}

NextRegistrations ==
    \/ \E sid \in Sids : Register(sid)
    \/ \E pid \in ActivePids : RegisterDiscovered(pending_from_pid(pid), pid)
    \/ \E sid \in RemovedSids : Remove(sid)
    \/ \E pid \in ActivePids : ApplyHookEvent(Uuid(pid), SessionEndCase, pid)
    \/ \E order \in Orders(to_remove(sessions_by_pid)) : CleanupStale(order)
    \/ \E pid \in ActivePids : ProcessExit(pid)

SpecRegistrations == InitRegistrations /\ [][NextRegistrations]_vars

\* a session no command of the model has registered
FurtherSession == SessionDomain_new(Uuid(0), "Sonnet4")

\* C32: the registrations of distinct sessions succeed up to MAX_SESSIONS
\* entries and the next one is answered RegistryFull without being stored;
\* after a step that has removed an entry (Remove, SessionEnd or the stale
\* sweep) a further registration succeeds
C32_CapacityExact ==
    [][/\ \A sid \in Sids :
             (sid \notin DOMAIN session_id_to_pid /\ Register(sid)) =>
                 IF Card(sessions_by_pid) >= MAX_SESSIONS
                 THEN /\ result' = "RegistryFull"
                      /\ sessions_by_pid' = sessions_by_pid
                 ELSE /\ result' = "Ok"
                      /\ Card(sessions_by_pid') = Card(sessions_by_pid) + 1
       /\ Card(sessions_by_pid') <= MAX_SESSIONS
       /\ Card(sessions_by_pid') < Card(sessions_by_pid) =>
             handle_register(sessions_by_pid', session_id_to_pid',
                             FurtherSession, 0).res = "Ok"
      ]_vars

\* the registry is at capacity again: a background session has been removed
\* and a session has been registered since, under a synthetic pid
C32_Witness ==
    /\ Card(sessions_by_pid) = MAX_SESSIONS
    /\ BackgroundPid(1) \notin DOMAIN sessions_by_pid
    /\ result = "Ok"
    /\ Len(events) = 1
    /\ events[1].type = "Registered"
    /\ events[1].session_id \in DOMAIN session_id_to_pid
    /\ session_id_to_pid[events[1].session_id] >= SYNTHETIC_PID_BASE

HandleOps ==
    {"register", "update_from_status_line", "apply_hook_event", "get_session",
     "get_all_sessions", "remove", "cleanup_stale", "register_discovered"}

\* what the operation op gives back when the command channel is closed:
\* map_err(|_| ChannelClosed), `.ok()?`, Vec::new(), or nothing at all
closed(op) ==
    CASE op = "get_session" -> Returned("None", {})
      [] op = "get_all_sessions" -> Returned("Vec", {})
      [] op = "cleanup_stale" -> Returned("none", {})
      [] OTHER -> Returned("ChannelClosed", {})

\* the caller of the command handled next drops the future of its operation,
\* and with it the receiver of the reply
DropReceiver ==
    /\ actor = "running"
    /\ respond_to = "open"
    /\ respond_to' = "closed"
    /\ UNCHANGED <<sessions_by_pid, session_id_to_pid, events, result, actor, caller,
                   proc, event_rx, server_vars>>

\* RegistryCommand::GetSession
GetSession(sid) ==
    /\ actor = "running"
    /\ LET view == handle_get_session(sessions_by_pid, session_id_to_pid, sid)
       IN /\ result' = IF view = <<>> THEN "None" ELSE "Some"
          /\ caller' = Awaited(Returned(result', {view[n] : n \in DOMAIN view}))
    /\ events' = <<>>
    /\ respond_to' = "open"
    /\ actor' = run
    /\ UNCHANGED <<sessions_by_pid, session_id_to_pid, proc, event_rx, server_vars>>

\* RegistryCommand::GetAllSessions
GetAllSessions ==
    /\ actor = "running"
    /\ result' = "Vec"
    /\ caller' = Awaited(Returned("Vec", handle_get_all_sessions(sessions_by_pid)))
    /\ events' = <<>>
    /\ respond_to' = "open"
    /\ actor' = run
    /\ UNCHANGED <<sessions_by_pid, session_id_to_pid, proc, event_rx, server_vars>>

\* the command receiver is dropped: the loop of RegistryActor::run has ended
\* or its task is gone
ActorStops ==
    /\ actor = "running"
    /\ actor' = "stopped"
    /\ UNCHANGED <<sessions_by_pid, session_id_to_pid, events, result, respond_to,
                   caller, proc, event_rx, server_vars>>

\* an operation of the handle after the actor has stopped: the send fails
AfterStop(op) ==
    /\ actor = "stopped"
    /\ caller' = closed(op)
    /\ UNCHANGED <<sessions_by_pid, session_id_to_pid, events, result, actor,
                   respond_to, proc, event_rx, server_vars>>

NextHandle ==
    \/ \E sid \in OnePidSids : Register(sid)
    \/ RegisterDiscovered(pending_from_pid(OnePid), OnePid)
    \/ UpdateFromStatusLine(StatusLineOf(OnePid))
    \/ ApplyHookEvent(Uuid(OnePid), SessionEndCase, OnePid)
    \/ \E sid \in OnePidSids : Remove(sid)
    \/ \E order \in Orders(to_remove(sessions_by_pid)) : CleanupStale(order)
    \/ ProcessExit(OnePid)
    \/ \E sid \in OnePidSids : GetSession(sid)
    \/ GetAllSessions
    \/ DropReceiver
    \/ ActorStops
    \/ \E op \in HandleOps : AfterStop(op)

SpecHandle == Init /\ [][NextHandle]_vars

\* the registry and the events of the step are those of the handler's outcome
Applied(out) ==
    /\ sessions_by_pid' = out.s
    /\ session_id_to_pid' = out.i
    /\ events' = out.ev
    /\ event_rx' = <<>>

\* C34: a reply or an event that cannot be delivered never stops the
\* registry actor. With the reply receiver dropped and no event receiver, a
\* command still changes the registry as its handler says, the actor keeps
\* running and takes the next command. After the actor has stopped, an
\* operation of the handle returns at once: ChannelClosed where it returns a
\* result, None from get_session, an empty list from get_all_sessions
\* (cleanup_stale, which returns no value, just returns), and the registry
\* is left alone.
C34_DeliveryFailuresTolerated ==
    [][/\ (actor = "running" /\ respond_to = "closed" /\ broadcaster = "none") =>
             /\ \A sid \in OnePidSids :
                   /\ Register(sid) =>
                         Applied(handle_register(sessions_by_pid, session_id_to_pid,
                                                 SessionDomain_new(sid, "Sonnet4"), 0))
                   /\ Remove(sid) =>
                         Applied(handle_remove(sessions_by_pid, session_id_to_pid,
                                               sid, "Explicit"))
             /\ RegisterDiscovered(pending_from_pid(OnePid), OnePid) =>
                   Applied(handle_register_discovered(
                               sessions_by_pid, session_id_to_pid,
                               pending_from_pid(OnePid), OnePid))
             /\ UpdateFromStatusLine(StatusLineOf(OnePid)) =>
                   Applied(handle_update_from_status_line(
                               sessions_by_pid, session_id_to_pid,
                               Uuid(OnePid), StatusLineOf(OnePid)))
             /\ (Commanded /\ ~ActorStops) => caller' = Returned("abandoned", {})
       /\ actor = "running" =>
             /\ actor' = "running" \/ ActorStops
             /\ \A sid \in OnePidSids : ENABLED Remove(sid)
       /\ actor = "stopped" =>
             /\ UNCHANGED <<sessions_by_pid, session_id_to_pid, events, result, actor>>
             /\ \A op \in HandleOps :
                   /\ ENABLED AfterStop(op)
                   /\ AfterStop(op) =>
                         /\ caller'.views = {}
                         /\ caller'.kind =
                               CASE op = "get_session" -> "None"
                                 [] op = "get_all_sessions" -> "Vec"
                                 [] op = "cleanup_stale" -> "none"
                                 [] OTHER -> "ChannelClosed"
      ]_vars

\* a session was registered and its event published to no receiver although
\* the caller had dropped the receiver of the reply, and the actor runs on
C34_Witness ==
    /\ actor = "running"
    /\ caller = Returned("abandoned", {})
    /\ result = "Ok"
    /\ Len(events) = 1
    /\ events[1].type = "Registered"
    /\ broadcaster = "none"
    /\ event_rx = <<>>
    /\ sessions_by_pid # EmptyMap


\* C35: the subscription of a live connection is its own: a Subscribe, an
\* Unsubscribe or the exit cleanup of another connection never removes it or
\* gives its place in the subscribers map to another writer, also when both
\* connections carry the same client id
C35_SubscriptionOwned ==
    [][\A c, d \in LifecycleConns :
          (/\ c # d
           /\ conn[d].pc \in {"ready", "subscribing"}
           /\ conn[d].client_id \in DOMAIN subscribers
           /\ subscribers[conn[d].client_id].writer = d
           /\ \/ RecvSubscribe(c, NoFilter)
              \/ RecvUnsubscribe(c)
              \/ RemoveSubscriber(c))
          => /\ conn[d].client_id \in DOMAIN subscribers'
             /\ subscribers'[conn[d].client_id].writer = d]_vars


(***************************************************************************)
(* SpecView: one client subscribes without a filter and follows the        *)
(* sessions through session_list, session_updated and session_removed,    *)
(* while the process 1 sends status lines and ends its session. No event   *)
(* is lost to lag and no write fails.                                      *)
(***************************************************************************)
session_list(sessions) == [type |-> "session_list", sessions |-> sessions]

\* handle_message, Subscribe, after the lock: registry.get_all_sessions()
\* answers with the sessions the registry holds at that moment
TakeSnapshot(c) ==
    /\ conn[c].pc = "subscribing"
    /\ conn' = [conn EXCEPT ![c].pc = "listing",
                            ![c].snapshot = handle_get_all_sessions(sessions_by_pid)]
    /\ UNCHANGED <<registry_vars, proc, task_vars, broadcaster, event_rx,
                   connection_counter, subscribers, sent>>

\* handle_message, Subscribe: send_message(session_list(sessions)) gets the
\* writer lock and writes the snapshot taken before
WriteSessionList(c) ==
    /\ conn[c].pc = "listing"
    /\ Len(sent[c]) < MaxSent
    /\ sent' = [sent EXCEPT ![c] = Written(sent[c], session_list(conn[c].snapshot))]
    /\ conn' = [conn EXCEPT ![c].pc = "ready", ![c].snapshot = {}]
    /\ UNCHANGED <<registry_vars, proc, task_vars, broadcaster, event_rx,
                   connection_counter, subscribers>>

\* every message of the broadcast is recorded: no connection's record is full
BroadcastRecorded == (\A c \in Conns : Len(sent[c]) < MaxSent) /\ Broadcast({})

\* the session of process 1 ends, with room in the channel for its event
SessionEnds == ChannelHas(1) /\ ApplyHookEvent(Uuid(1), SessionEndCase, 1)

NextView ==
    \/ Accept
    \/ \E c \in Conns : Handshake(c, ConnectWithoutId)
    \/ \E c \in Conns : RecvSubscribe(c, NoFilter)
    \/ \E c \in Conns : TakeSnapshot(c)
    \/ \E c \in Conns : WriteSessionList(c)
    \/ \E c \in Conns : RecvPing(c)
    \/ StatusLineArrives
    \/ SessionEnds
    \/ BroadcastRecorded

SpecView == InitBroadcast /\ [][NextView]_vars

\* atm client, handle_message: the sessions the client shows after the
\* message msg: a session_list replaces them, a session_updated inserts or
\* replaces one, a session_removed deletes one
Shown(view, msg) ==
    CASE msg.type = "session_list" -> msg.sessions
      [] msg.type = "session_updated" ->
            {s \in view : s.id # msg.session_id} \cup {msg.session}
      [] msg.type = "session_removed" -> {s \in view : s.id # msg.session_id}
      [] OTHER -> view

RECURSIVE ShownAfter(_, _)
\* the sessions shown after the messages msgs, received in this order
ShownAfter(view, msgs) ==
    IF msgs = <<>> THEN view ELSE ShownAfter(Shown(view, Head(msgs)), Tail(msgs))

\* C36: once the session list has been written to an unfiltered subscriber,
\* the registry is quiet and every event has been delivered, the sessions the
\* client shows after the messages it received, applied in their order, are
\* exactly the sessions the registry holds
C36_SubscriberConverges ==
    \A c \in Conns :
        (/\ conn[c].pc = "ready"
         /\ conn[c].subscribed
         /\ \E n \in DOMAIN sent[c] : sent[c][n].type = "session_list"
         /\ event_rx = <<>>)
        => ShownAfter({}, sent[c]) = handle_get_all_sessions(sessions_by_pid)


\* the session id is carried by an entry of the primary map S
Held(S, id) == \E pid \in DOMAIN S : S[pid].domain.id = id

RECURSIVE Live(_, _, _)
\* whether the id is registered in the event stream after the events evs,
\* given whether it was before them
Live(before, evs, id) ==
    IF evs = <<>> THEN before
    ELSE LET last == evs[Len(evs)]
         IN IF last.type = "Updated" \/ last.session_id # id
            THEN Live(before, SubSeq(evs, 1, Len(evs) - 1), id)
            ELSE last.type = "Registered"

\* the id of an event
EventId(e) == IF e.type = "Updated" THEN e.session.id ELSE e.session_id

\* C37: the events of each session id are well-formed. An Updated or a
\* Removed of an id is published only while the id is registered, a
\* Registered only while it is not (at first, or after a Removed), and for
\* the entries that leave the registry or change their id as many Removed
\* events of the old id are published as there are such entries.
C37_EventStreamWellFormed ==
    [][/\ \A n \in DOMAIN events' :
             LET id == EventId(events'[n])
                 live == Live(Held(sessions_by_pid, id), SubSeq(events', 1, n - 1), id)
             IN IF events'[n].type = "Registered" THEN ~live ELSE live
       /\ \A id \in {sessions_by_pid[pid].domain.id : pid \in DOMAIN sessions_by_pid} :
             Cardinality({n \in DOMAIN events' :
                             events'[n].type = "Removed" /\ events'[n].session_id = id})
             = Cardinality({pid \in DOMAIN sessions_by_pid :
                               /\ sessions_by_pid[pid].domain.id = id
                               /\ \/ pid \notin DOMAIN sessions_by_pid'
                                  \/ sessions_by_pid'[pid].domain.id # id})
      ]_vars


(***************************************************************************)
(* SpecStream: the bytes written to the socket of a subscriber, by its     *)
(* handler under WRITE_TIMEOUT and by the broadcaster, through the         *)
(* BufWriter they share                                                    *)
(***************************************************************************)
\* the first bytes of a message, without its end and without the newline
Partial(type) == [type |-> "partial", of |-> type]

\* send_message abandoned by timeout(WRITE_TIMEOUT, ..) while the client
\* does not read. A message below the capacity of the BufWriter stays whole
\* in its buffer and is flushed ahead of the next write; a longer one is
\* written through to the socket by write_all, and the future dropped on the
\* timeout takes the unwritten rest with it.
WriteAbandoned(c, through) ==
    /\ conn[c].pc = "subscribing"
    /\ Len(sent[c]) < MaxSent
    /\ sent' = [sent EXCEPT ![c] =
                   Written(sent[c], IF through THEN Partial("session_list")
                                    ELSE Msg("session_list"))]
    /\ conn' = [conn EXCEPT ![c].pc = "failed"]
    /\ UNCHANGED <<registry_vars, proc, task_vars, broadcaster, event_rx,
                   connection_counter, subscribers>>

\* process_messages after handle_message returned Err(WriteTimeout): the
\* error is sent on the same writer and the loop continues
ReplyError(c) ==
    /\ conn[c].pc = "failed"
    /\ Len(sent[c]) < MaxSent
    /\ sent' = [sent EXCEPT ![c] = Written(sent[c], Error("Write timeout"))]
    /\ conn' = [conn EXCEPT ![c].pc = "ready"]
    /\ UNCHANGED <<registry_vars, proc, task_vars, broadcaster, event_rx,
                   connection_counter, subscribers>>

NextStream ==
    \/ Accept
    \/ \E c \in Conns : Handshake(c, ConnectWithoutId)
    \/ \E c \in Conns : RecvSubscribe(c, NoFilter)
    \/ \E c \in Conns : SendSessionList(c)
    \/ \E c \in Conns, through \in BOOLEAN : WriteAbandoned(c, through)
    \/ \E c \in Conns : ReplyError(c)
    \/ \E c \in Conns : RecvUnsubscribe(c)
    \/ StatusLineArrives
    \/ SessionEnds
    \/ BroadcastRecorded

SpecStream == InitBroadcast /\ [][NextStream]_vars

\* C38: every line a client receives is one complete message: in what has
\* been written to a connection, nothing follows the unfinished part of a
\* message
C38_LinesComplete ==
    \A c \in Conns :
        \A n \in DOMAIN sent[c] : sent[c][n].type = "partial" => n = Len(sent[c])


(***************************************************************************)
(* SpecLocks: connection handlers and the broadcaster taking the lock of   *)
(* the subscribers map and writing to the sockets, with clients that stop  *)
(* reading for a while; every write that waits for its socket completes or *)
(* fails in the end                                                        *)
(***************************************************************************)
\* the client that had stopped reading reads again: the pending write of
\* broadcast_event completes and the read lock is released (the record of
\* what was sent does not follow the message of a write that had to wait)
WriteCompletes(c) ==
    /\ broadcaster = "writing"
    /\ peer[c] = "stalled"
    /\ peer' = [peer EXCEPT ![c] = "reading"]
    /\ broadcaster' = "running"
    /\ UNCHANGED <<registry_vars, proc, event_rx, connection_counter, conn, sent,
                   subscribers, cancel_token, listener, socket_file>>

NextLocks ==
    \/ Accept
    \/ \E c \in Conns : Active(c) /\ Handshake(c, ConnectWithoutId)
    \/ \E c \in Conns : Active(c) /\ LockFree /\ RecvSubscribe(c, NoFilter)
    \/ \E c \in Conns : SendSessionList(c)
    \/ \E c \in Conns : Active(c) /\ LockFree /\ RecvUnsubscribe(c)
    \/ \E c \in Conns, err \in {"Eof", "Timeout"} : ReadEnds(c, err)
    \/ \E c \in Conns : RemoveSubscriber(c)
    \/ \E c \in Conns : PeerStalls(c)
    \/ \E c \in Conns : WriteFails(c)
    \/ \E c \in Conns : WriteCompletes(c)
    \/ StatusLineArrives
    \/ SessionEnds
    \/ BroadcastFlows
    \/ \E written \in SUBSET (Receivers(subscribers, Uuid(1)) \cap DOMAIN sent) :
          BroadcastStalls(written \ StalledReceivers)

\* every socket write completes or fails in the end; the tasks run whenever
\* they can, and a handler that waits for the write lock of the map is
\* granted it once the readers ahead of it have released theirs (the RwLock
\* of tokio queues its waiters fairly)
FairLocks ==
    /\ WF_vars(BroadcastFlows)
    /\ \A c \in Conns :
          /\ WF_vars(WriteFails(c) \/ WriteCompletes(c))
          /\ WF_vars(SendSessionList(c))
          /\ SF_vars(RemoveSubscriber(c))

SpecLocks == InitBroadcast /\ [][NextLocks]_vars /\ FairLocks

NextErrors ==
    \/ \E sid \in Sids : Register(sid)
    \/ RegisterDiscovered(pending_from_pid(OnePid), OnePid)
    \/ \E raw \in RawStatusLinesOver(Sids, {AbsentPid, OnePid}) : UpdateFromStatusLine(raw)
    \/ \E sid \in Sids : Remove(sid)

SpecErrors == InitRegistrations /\ [][NextErrors]_vars

\* the errors a registry command answers with
RegistryErrors == {"SessionAlreadyExists", "RegistryFull", "SessionNotFound", "ParseError"}

\* C40: a registry command that is answered with an error leaves the primary
\* map and the index as they were and publishes no event
C40_ErrorChangesNothing ==
    [][result' \in RegistryErrors =>
          /\ sessions_by_pid' = sessions_by_pid
          /\ session_id_to_pid' = session_id_to_pid
          /\ events' = <<>>]_vars

\* the registry is full, one of its sessions came by a command of the model,
\* and the last command was refused with RegistryFull and published nothing
C40_Witness ==
    /\ result = "RegistryFull"
    /\ events = <<>>
    /\ Card(sessions_by_pid) = MAX_SESSIONS
    /\ \E sid \in Sids : sid \in DOMAIN session_id_to_pid

====
